---- MODULE Spec2Model ----
(***************************************************************************)
(* Model of the learnwgpu tutorials: five binaries (t001-window,           *)
(* t02-triangle with its three versions, t03-shader, t04-texture,          *)
(* t006-coord) that share one shape: main builds a window, run() acquires  *)
(* adapter and device, configures the surface, and hands a closure to the  *)
(* winit event loop.  One action per start-up step and per event handled   *)
(* by the closure.                                                         *)
(*                                                                         *)
(* Numbers.  f32 values are modelled exactly, as elements (a + b*sqrt 2) / *)
(* d of Q(sqrt 2), held as the integers [a, b, d] in lowest terms with     *)
(* d > 0; Num(a, b) is the value (a + b*sqrt 2) / Den.  Sums, products and *)
(* the division by 100 are exact for every such value.  The clock is read  *)
(* on the grid of quarter periods: a game time k stands for k * pi/2       *)
(* seconds.  On that grid sin and cos of the time are 0, 1, -1 and the     *)
(* half-angle sin and cos used by Quat::from_axis_angle are 0, +-1 and     *)
(* +-sqrt(2)/2; f32 rounding is not modelled.                              *)
(***************************************************************************)
EXTENDS Integers, Sequences, FiniteSets, TLC

\* ------------------------------------------------------------------ bounds
\* Largest window width and height delivered by a Resized event.
MaxDim == 2
\* Largest clock reading, in quarter periods (pi/2 s).
MaxTime == 4
\* Largest number of RedrawRequested events handled in one run.
MaxTicks == 2
\* Largest number of Transform operations applied in TransformSpec.
MaxOps == 3
\* Longest entry list, and largest binding index, tried with create_bind_group.
MaxEntries == 2

\* ----------------------------------------------------------------- numbers
\* Denominator of the constants written with Num: 1/100 (main.rs:411),
\* 1/10 (main.rs:412) and 1/2 (the squares of sqrt(2)/2) are all whole
\* multiples of 1/Den.
Den == 2 * 100

RECURSIVE GCD(_, _)
GCD(m, n) == IF n = 0 THEN m ELSE GCD(n, m % n)

NAbs(n) == IF n < 0 THEN 0 - n ELSE n

\* (a + b*sqrt 2) / d in lowest terms, d > 0.
NReduce(a, b, d) ==
    IF d = 1 THEN [a |-> a, b |-> b, d |-> 1]
    ELSE LET g == GCD(GCD(NAbs(a), NAbs(b)), d)
         IN  [a |-> a \div g, b |-> b \div g, d |-> d \div g]

\* The value (a + b*sqrt 2) / Den.
Num(a, b) == NReduce(a, b, Den)
Zero == Num(0, 0)
One == Num(Den, 0)
Tenth == Num(Den \div 10, 0)
HalfSqrt2 == Num(0, Den \div 2)

NAdd(x, y) == NReduce(x.a * y.d + y.a * x.d, x.b * y.d + y.b * x.d, x.d * y.d)
NNeg(x) == [a |-> 0 - x.a, b |-> 0 - x.b, d |-> x.d]
NSub(x, y) == NAdd(x, NNeg(y))
\* (a + b*sqrt 2)(a' + b'*sqrt 2) = (a a' + 2 b b') + (a b' + b a')*sqrt 2
NMul(x, y) == NReduce(x.a * y.a + 2 * x.b * y.b, x.a * y.b + x.b * y.a, x.d * y.d)
\* x / 100.
NDiv100(x) == NReduce(x.a, x.b, x.d * 100)

\* Sign of (a + b*sqrt 2) / d, that of a + b*sqrt 2 as d > 0: compare a*a with 2*b*b when the signs differ.
NSign(x) ==
    IF x.a >= 0 /\ x.b >= 0 THEN (IF x.a = 0 /\ x.b = 0 THEN 0 ELSE 1)
    ELSE IF x.a <= 0 /\ x.b <= 0 THEN -1
    ELSE IF x.a > 0 THEN (IF x.a * x.a > 2 * x.b * x.b THEN 1 ELSE -1)
    ELSE (IF 2 * x.b * x.b > x.a * x.a THEN 1 ELSE -1)
NLess(x, y) == NSign(NSub(x, y)) < 0
\* f32::max on two numbers (neither is NaN here).
NMax(x, y) == IF NLess(x, y) THEN y ELSE x

\* sin and cos of n eighths of a turn (n * pi/4).
SinEighth(n) ==
    CASE n % 8 = 0 -> Zero
      [] n % 8 = 1 -> HalfSqrt2
      [] n % 8 = 2 -> One
      [] n % 8 = 3 -> HalfSqrt2
      [] n % 8 = 4 -> Zero
      [] n % 8 = 5 -> NNeg(HalfSqrt2)
      [] n % 8 = 6 -> NNeg(One)
      [] OTHER -> NNeg(HalfSqrt2)
CosEighth(n) == SinEighth(n + 2)

\* f32::sin / f32::cos of a time of k quarter periods.
Sin(k) == SinEighth(2 * k)
Cos(k) == CosEighth(2 * k)

\* ------------------------------------------------------------ glam vectors
Vec3(x, y, z) == [x |-> x, y |-> y, z |-> z]
Vec3ZERO == Vec3(Zero, Zero, Zero)
Vec3ONE == Vec3(One, One, One)
Vec3X == Vec3(One, Zero, Zero)
Vec3Y == Vec3(Zero, One, Zero)
Vec3Z == Vec3(Zero, Zero, One)
Vec3splat(v) == Vec3(v, v, v)

Quat(x, y, z, w) == [x |-> x, y |-> y, z |-> z, w |-> w]
QuatIDENTITY == Quat(Zero, Zero, Zero, One)

\* Quat::from_axis_angle(axis, angle), the angle in quarter turns: the
\* half angle is `angle` eighths of a turn.
QuatFromAxisAngle(axis, angle) ==
    LET s == SinEighth(angle)
        c == CosEighth(angle)
    IN  Quat(NMul(axis.x, s), NMul(axis.y, s), NMul(axis.z, s), c)

\* Quat * Quat (Hamilton product, glam's mul_quat).
QuatMul(p, q) ==
    Quat(NAdd(NSub(NAdd(NMul(p.w, q.x), NMul(p.x, q.w)), NMul(p.z, q.y)), NMul(p.y, q.z)),
         NAdd(NAdd(NSub(NMul(p.w, q.y), NMul(p.x, q.z)), NMul(p.y, q.w)), NMul(p.z, q.x)),
         NAdd(NSub(NAdd(NMul(p.w, q.z), NMul(p.x, q.y)), NMul(p.y, q.x)), NMul(p.z, q.w)),
         NSub(NSub(NSub(NMul(p.w, q.w), NMul(p.x, q.x)), NMul(p.y, q.y)), NMul(p.z, q.z)))

\* Mat4: four columns (x_axis, y_axis, z_axis, w_axis) of four numbers.
Vec4(x, y, z, w) == <<x, y, z, w>>
Vec4Scale(v, k) == <<NMul(v[1], k), NMul(v[2], k), NMul(v[3], k), NMul(v[4], k)>>
Mat4FromCols(c1, c2, c3, c4) == <<c1, c2, c3, c4>>

\* glam's Mat4::quat_to_axes: the three rotated basis vectors.
QuatToAxes(q) ==
    LET x2 == NAdd(q.x, q.x)
        y2 == NAdd(q.y, q.y)
        z2 == NAdd(q.z, q.z)
        xx == NMul(q.x, x2)
        xy == NMul(q.x, y2)
        xz == NMul(q.x, z2)
        yy == NMul(q.y, y2)
        yz == NMul(q.y, z2)
        zz == NMul(q.z, z2)
        wx == NMul(q.w, x2)
        wy == NMul(q.w, y2)
        wz == NMul(q.w, z2)
    IN  <<Vec4(NSub(One, NAdd(yy, zz)), NAdd(xy, wz), NSub(xz, wy), Zero),
          Vec4(NSub(xy, wz), NSub(One, NAdd(xx, zz)), NAdd(yz, wx), Zero),
          Vec4(NAdd(xz, wy), NSub(yz, wx), NSub(One, NAdd(xx, yy)), Zero)>>

\* A plausible slip in to_mat4: the translation is put through the rotation
\* and the scale (translate first) instead of being applied last.
Mat4TranslateFirst(scale, rotation, translation) ==
    LET ax == QuatToAxes(rotation)
        cx == Vec4Scale(ax[1], scale.x)
        cy == Vec4Scale(ax[2], scale.y)
        cz == Vec4Scale(ax[3], scale.z)
    IN  Mat4FromCols(cx, cy, cz,
            Vec4(NAdd(NAdd(NMul(cx[1], translation.x), NMul(cy[1], translation.y)),
                      NMul(cz[1], translation.z)),
                 NAdd(NAdd(NMul(cx[2], translation.x), NMul(cy[2], translation.y)),
                      NMul(cz[2], translation.z)),
                 NAdd(NAdd(NMul(cx[3], translation.x), NMul(cy[3], translation.y)),
                      NMul(cz[3], translation.z)),
                 One))

\* Mat4::from_scale_rotation_translation(scale, rotation, translation).
Mat4FromScaleRotationTranslation(scale, rotation, translation) ==
    LET ax == QuatToAxes(rotation)
    IN  Mat4FromCols(Vec4Scale(ax[1], scale.x),
                     Vec4Scale(ax[2], scale.y),
                     Vec4Scale(ax[3], scale.z),
                     Vec4(translation.x, translation.y, translation.z, One))

\* Mat4 * Mat4: entry (row r, column c) is the sum over k of A[k][r] * B[c][k].
Mat4Mul(A, B) ==
    [c \in 1..4 |->
        [r \in 1..4 |->
            NAdd(NAdd(NMul(A[1][r], B[c][1]), NMul(A[2][r], B[c][2])),
                 NAdd(NMul(A[3][r], B[c][3]), NMul(A[4][r], B[c][4])))]]

\* The three elementary matrices of glam: Mat4::from_scale, Mat4::from_quat,
\* Mat4::from_translation.
Mat4FromScale(s) ==
    Mat4FromCols(Vec4(s.x, Zero, Zero, Zero), Vec4(Zero, s.y, Zero, Zero),
                 Vec4(Zero, Zero, s.z, Zero), Vec4(Zero, Zero, Zero, One))
Mat4FromQuat(q) ==
    LET ax == QuatToAxes(q)
    IN  Mat4FromCols(ax[1], ax[2], ax[3], Vec4(Zero, Zero, Zero, One))
Mat4FromTranslation(t) ==
    Mat4FromCols(Vec4(One, Zero, Zero, Zero), Vec4(Zero, One, Zero, Zero),
                 Vec4(Zero, Zero, One, Zero), Vec4(t.x, t.y, t.z, One))

\* --------------------------------------------------------------- Transform
\* struct Transform { translation, rotation, scale }
Transform(translation, rotation, scale) ==
    [translation |-> translation, rotation |-> rotation, scale |-> scale]

\* Transform::new()
TransformNew == Transform(Vec3ZERO, QuatIDENTITY, Vec3ONE)

\* Transform::rotate(&self, axis, radius): self.rotation * from_axis_angle.
rotate(self, axis, radius) ==
    [self EXCEPT !.rotation = QuatMul(self.rotation, QuatFromAxisAngle(axis, radius))]

\* Transform::rotate_x(&self, radius)
rotate_x(self, radius) == rotate(self, Vec3X, radius)

\* Transform::rotate_y(&self, radius)
rotate_y(self, radius) == rotate(self, Vec3Y, radius)

\* Transform::rotate_z(&self, radius)
rotate_z(self, radius) == rotate(self, Vec3Z, radius)

\* A plausible slip in set_scale: the result is built from Transform::new()
\* (Self { scale, ..Self::new() }) instead of from self.
set_scale_from_new(self, scale) ==
    [Transform(Vec3ZERO, QuatIDENTITY, Vec3ONE) EXCEPT !.scale = Vec3splat(scale)]

\* Transform::set_scale(&self, scale): Vec3::splat(scale).
set_scale(self, scale) == [self EXCEPT !.scale = Vec3splat(scale)]

\* A plausible slip in add_translate: the step is taken in the object's own
\* scaled frame (multiplied by the current scale) instead of in world space.
add_translate_scaled(self, tran_val) ==
    [self EXCEPT !.translation =
        Vec3(NAdd(self.translation.x, NMul(tran_val, self.scale.x)),
             NAdd(self.translation.y, NMul(tran_val, self.scale.y)),
             self.translation.z)]

\* A plausible slip in add_translate: the value replaces x and y instead of
\* being added to them.
add_translate_absolute(self, tran_val) ==
    [self EXCEPT !.translation = Vec3(tran_val, tran_val, self.translation.z)]

\* A plausible slip in add_translate: the value is added to all three
\* components, as Vec3::splat(tran_val) would.
add_translate_splat(self, tran_val) ==
    [self EXCEPT !.translation =
        Vec3(NAdd(self.translation.x, tran_val),
             NAdd(self.translation.y, tran_val),
             NAdd(self.translation.z, tran_val))]

\* Transform::add_translate(&self, tran_val): x and y move, z is kept.
add_translate(self, tran_val) ==
    [self EXCEPT !.translation =
        Vec3(NAdd(self.translation.x, tran_val),
             NAdd(self.translation.y, tran_val),
             self.translation.z)]

\* A plausible slip in to_mat4: the components are composed translate-first.
to_mat4TranslateFirst(self) ==
    Mat4TranslateFirst(self.scale, self.rotation, self.translation)

\* Transform::to_mat4(&self)
to_mat4(self) ==
    Mat4FromScaleRotationTranslation(self.scale, self.rotation, self.translation)

\* ------------------------------------------------------------ byte payloads
\* A buffer's contents are bytes of memory.  Byte i (in memory order) of the
\* f32 value x = (a + b*sqrt 2) / d is written ByteOf(x, i) = <<a, b, d, i>>:
\* four bytes read back as an f32 give x exactly when they are bytes 0, 1,
\* 2, 3 of x in that order.
ByteOf(x, i) == <<x.a, x.b, x.d, i>>

\* The four bytes of an f32 in memory.
F32Bytes(x) == <<ByteOf(x, 0), ByteOf(x, 1), ByteOf(x, 2), ByteOf(x, 3)>>

\* A plausible slip: the 16 floats are laid out row by row.
Mat4AsRefRowMajor(m) ==
    [k \in 1..16 |-> m[((k - 1) % 4) + 1][((k - 1) \div 4) + 1]]

\* Mat4::as_ref(): &[f32; 16], the four columns one after the other.
Mat4AsRef(m) ==
    [k \in 1..16 |-> m[((k - 1) \div 4) + 1][((k - 1) % 4) + 1]]

\* A plausible slip: each float is narrowed to two bytes on upload.
cast_slice_f16(floats) ==
    [k \in 1..(2 * Len(floats)) |-> F32Bytes(floats[((k - 1) \div 2) + 1])[((k - 1) % 2) + 1]]

\* bytemuck::cast_slice::<f32, u8>: the same memory viewed as bytes.
cast_slice(floats) ==
    [k \in 1..(4 * Len(floats)) |-> F32Bytes(floats[((k - 1) \div 4) + 1])[((k - 1) % 4) + 1]]

\* contents: bytemuck::cast_slice(mat4.as_ref())
Mat4Contents(m) == cast_slice(Mat4AsRef(m))

\* ------------------------------------------------- view and projection
\* An f32 that glam computes and the model does not evaluate: the named
\* quantity for the given arguments.  It has the fields of a number, so it
\* has bytes as a number has.
Symbolic(quantity, args) == [a |-> quantity, b |-> args, d |-> 1]

\* size.width as f32 / size.height as f32, kept as a fraction in lowest
\* terms: 2 / 1 and 4 / 2 are the same f32.
AspectRatio(size) ==
    <<size.width \div GCD(size.width, size.height),
      size.height \div GCD(size.width, size.height)>>

\* Mat4::look_at_rh(Vec3::new(0., 0., 3.), Vec3::new(0., 1., 0.), Vec3::Y)
view ==
    Mat4FromCols(Vec4(Symbolic("look_at_rh", <<1, 1>>), Symbolic("look_at_rh", <<1, 2>>),
                      Symbolic("look_at_rh", <<1, 3>>), Zero),
                 Vec4(Symbolic("look_at_rh", <<2, 1>>), Symbolic("look_at_rh", <<2, 2>>),
                      Symbolic("look_at_rh", <<2, 3>>), Zero),
                 Vec4(Symbolic("look_at_rh", <<3, 1>>), Symbolic("look_at_rh", <<3, 2>>),
                      Symbolic("look_at_rh", <<3, 3>>), Zero),
                 Vec4(Symbolic("look_at_rh", <<4, 1>>), Symbolic("look_at_rh", <<4, 2>>),
                      Symbolic("look_at_rh", <<4, 3>>), One))

\* glam's Mat4::perspective_rh(45 degrees, aspect_ratio, 0.1, 40.):
\*   h = cos(fov / 2) / sin(fov / 2) = 1 + sqrt 2,  w = h / aspect_ratio,
\*   r = z_far / (z_near - z_far);
\*   columns (w, 0, 0, 0), (0, h, 0, 0), (0, 0, r, -1), (0, 0, r * z_near, 0).
perspective_rh(aspect_ratio) ==
    Mat4FromCols(Vec4(Symbolic("h / aspect_ratio", aspect_ratio), Zero, Zero, Zero),
                 Vec4(Zero, Num(Den, Den), Zero, Zero),
                 Vec4(Zero, Zero, Symbolic("r", <<>>), NNeg(One)),
                 Vec4(Zero, Zero, Symbolic("r * z_near", <<>>), Zero))

\* A plausible slip: the aspect ratio is taken as height over width.
ProjectionForInverted(size) ==
    perspective_rh(AspectRatio([width |-> size.height, height |-> size.width]))

\* let projection = Mat4::perspective_rh(.., size.width as f32 / size.height as f32, ..)
ProjectionFor(size) == perspective_rh(AspectRatio(size))

\* mat4_bindgroup_layout: min_binding_size: wgpu::BufferSize::new(64)
mat4_min_binding_size == 64

\* view_buffer and projection_buffer: contents: bytemuck::cast_slice(m.as_ref())
ViewBufferContents == Mat4Contents(view)
ProjectionBufferContents(m) == Mat4Contents(m)

\* ---------------------------------------------------------------- meshes
\* Vertex coordinates, colours and texture coordinates are written in
\* hundredths (0.5 is 50, -0.25 is -25).
\* t02-triangle, t03-shader: struct Vertex { position / pos, color }.
Vertex(position, color) == [position |-> position, color |-> color]
\* t04-texture, t006-coord: struct Vertex { pos, tex_coord }.
TexVertex(pos, tex_coord) == [pos |-> pos, tex_coord |-> tex_coord]

\* t02-triangle: const VERTICES
VERTICES ==
    << Vertex(<<0, 50, 0>>, <<100, 0, 0>>),
       Vertex(<<-50, -50, 0>>, <<0, 100, 0>>),
       Vertex(<<50, -50, 0>>, <<0, 0, 100>>) >>

\* t02-triangle: const VERTICES_TWO_TRIANGLE
VERTICES_TWO_TRIANGLE ==
    << Vertex(<<-25, 50, 0>>, <<100, 0, 0>>),
       Vertex(<<0, 0, 0>>, <<0, 100, 0>>),
       Vertex(<<-50, 0, 0>>, <<0, 0, 100>>),
       Vertex(<<25, 50, 0>>, <<100, 0, 0>>),
       Vertex(<<0, 0, 0>>, <<0, 100, 0>>),
       Vertex(<<50, 0, 0>>, <<0, 0, 100>>),
       Vertex(<<-25, 0, 0>>, <<100, 0, 0>>),
       Vertex(<<0, -50, 0>>, <<0, 100, 0>>),
       Vertex(<<-50, -50, 0>>, <<0, 0, 100>>),
       Vertex(<<25, 0, 0>>, <<100, 0, 0>>),
       Vertex(<<0, -50, 0>>, <<0, 100, 0>>),
       Vertex(<<50, -50, 0>>, <<0, 0, 100>>) >>

\* A plausible slip: the index list counts the vertices from 1.
create_vertices_one_based(v) ==
    IF v = "t03"
    THEN [vertices |-> << Vertex(<<-100, -100, 0>>, <<100, 0, 0>>),
                          Vertex(<<100, -100, 0>>, <<0, 100, 0>>),
                          Vertex(<<0, 100, 0>>, <<0, 0, 100>>) >>,
          indices |-> <<1, 2, 3>>]
    ELSE [vertices |-> << TexVertex(<<-50, -50, 0>>, <<0, 100>>),
                          TexVertex(<<50, -50, 0>>, <<100, 100>>),
                          TexVertex(<<50, 50, 0>>, <<100, 0>>),
                          TexVertex(<<-50, 50, 0>>, <<0, 0>>) >>,
          indices |-> <<1, 2, 4, 2, 3, 4>>]

\* create_vertices() of t03-shader (a triangle, indices 0 1 2) and of
\* t04-texture and t006-coord (a quad as two triangles).
create_vertices(v) ==
    IF v = "t03"
    THEN [vertices |-> << Vertex(<<-100, -100, 0>>, <<100, 0, 0>>),
                          Vertex(<<100, -100, 0>>, <<0, 100, 0>>),
                          Vertex(<<0, 100, 0>>, <<0, 0, 100>>) >>,
          indices |-> <<0, 1, 2>>]
    ELSE [vertices |-> << TexVertex(<<-50, -50, 0>>, <<0, 100>>),
                          TexVertex(<<50, -50, 0>>, <<100, 100>>),
                          TexVertex(<<50, 50, 0>>, <<100, 0>>),
                          TexVertex(<<-50, 50, 0>>, <<0, 0>>) >>,
          indices |-> <<0, 1, 3, 1, 2, 3>>]

\* The vertex data each run function uploads with create_buffer_init
\* (run_v1 and t001-window upload none).
VerticesOf(v) ==
    CASE v = "v2" -> VERTICES
      [] v = "v3" -> VERTICES_TWO_TRIANGLE
      [] v \in {"t03", "t04", "t006"} -> create_vertices(v).vertices
      [] OTHER -> <<>>

\* A plausible slip: only the first triangle of the index list is used.
IndicesOfFirstTriangle(v) ==
    IF v \in {"t03", "t04", "t006"} THEN SubSeq(create_vertices(v).indices, 1, 3) ELSE <<>>

\* The index data each run function uploads (only the create_vertices users).
IndicesOf(v) ==
    IF v \in {"t03", "t04", "t006"} THEN create_vertices(v).indices ELSE <<>>

\* --------------------------------------------------------- vertex layouts
\* Number of f32 components of a wgpu::VertexFormat, and its size in bytes.
FormatComponents(format) ==
    CASE format = "Float32x2" -> 2
      [] format = "Float32x3" -> 3
      [] format = "Float32x4" -> 4

FormatSize(format) == 4 * FormatComponents(format)

\* Sum of the sizes of the first n formats of a list.
RECURSIVE SizeOfFormats(_, _)
SizeOfFormats(formats, n) ==
    IF n = 0 THEN 0 ELSE SizeOfFormats(formats, n - 1) + FormatSize(formats[n])

\* wgpu::vertex_attr_array![0 => f0, 1 => f1, ..]: shader locations as
\* written, each offset the sum of the sizes of the formats before it.
vertex_attr_array(formats) ==
    [i \in 1..Len(formats) |->
        [format |-> formats[i],
         offset |-> SizeOfFormats(formats, i - 1),
         shader_location |-> i - 1]]

\* The f32 component counts of the fields of each tutorial's #[repr(C)]
\* struct Vertex: pos/position [f32; 3], then color [f32; 3] (t02, t03) or
\* tex_coord [f32; 2] (t04, t006).
VertexFields(v) ==
    CASE v \in {"v2", "v3", "t03"} -> <<3, 3>>
      [] v \in {"t04", "t006"} -> <<3, 2>>
      [] OTHER -> <<>>

RECURSIVE SumSeq(_, _)
SumSeq(seq, n) == IF n = 0 THEN 0 ELSE SumSeq(seq, n - 1) + seq[n]

\* std::mem::size_of::<Vertex>(): #[repr(C)] with f32 fields only, no padding.
SizeOfVertex(v) == 4 * SumSeq(VertexFields(v), Len(VertexFields(v)))

\* Vertex::buffer_layout() (t02) and `let vertex_buffer_layout` (t03, t04,
\* t006): the stride is size_of::<Vertex>() and the attributes are
\* vertex_attr_array![0 => Float32x3, 1 => Float32x3] in all of them.
vertex_buffer_layout(v) ==
    [array_stride |-> SizeOfVertex(v),
     step_mode |-> "Vertex",
     attributes |-> vertex_attr_array(<<"Float32x3", "Float32x3">>)]

\* Transform::buffer_layout(): one Mat4 per instance, its four columns at
\* shader locations 2..5.
buffer_layout ==
    [array_stride |-> 4 * 16,
     step_mode |-> "Instance",
     attributes |-> [i \in 1..4 |->
                        [format |-> "Float32x4",
                         offset |-> 4 * 4 * (i - 1),
                         shader_location |-> i + 1]]]

\* VertexState::buffers of each render pipeline (t001-window has no pipeline).
VertexBuffersOf(v) ==
    CASE v \in {"v2", "v3", "t03", "t04"} -> <<vertex_buffer_layout(v)>>
      [] v = "t006" -> <<vertex_buffer_layout(v), buffer_layout>>
      [] OTHER -> <<>>

\* ------------------------------------------------------------- bind groups
\* BindGroupLayoutEntry { binding, ty } and BindGroupEntry { binding, resource },
\* as far as device.create_bind_group tells them apart.
LayoutEntry(binding, ty) == [binding |-> binding, ty |-> ty]
GroupEntry(binding, resource) == [binding |-> binding, resource |-> resource]

\* t04-texture, t006-coord: texture_bind_group_layout
texture_bind_group_layout == <<LayoutEntry(0, "Texture"), LayoutEntry(1, "Sampler")>>
\* t006-coord: mat4_bindgroup_layout
mat4_bindgroup_layout == <<LayoutEntry(0, "Buffer")>>

BindGroupLayoutOf(name) ==
    CASE name = "texture_bind_group_layout" -> texture_bind_group_layout
      [] name = "mat4_bindgroup_layout" -> mat4_bindgroup_layout

\* The BindingType a BindingResource satisfies.
ResourceType(resource) ==
    CASE resource = "TextureView" -> "Texture"
      [] resource = "Sampler" -> "Sampler"
      [] resource = "Buffer" -> "Buffer"

\* The first entry, in the order given, that names a binding the layout does
\* not declare or offers a resource of another type than the declared one
\* (0 if there is none).
FirstBadEntry(layout, entries) ==
    LET bad == {i \in 1..Len(entries) :
                   \A j \in 1..Len(layout) :
                      \/ layout[j].binding # entries[i].binding
                      \/ layout[j].ty # ResourceType(entries[i].resource)}
    IN  IF bad = {} THEN 0
        ELSE CHOOSE i \in bad : \A k \in bad : i <= k

\* The validation of device.create_bind_group, which is the library's and
\* not the program's.  The number of entries is compared with the layout's
\* first.  The entries are then taken in the order given: an entry whose
\* binding the layout does not declare, or whose resource is not of the
\* declared type, ends the validation with that entry's error.  A binding
\* given twice is looked for last.
BindGroupError(layout, entries) ==
    IF Len(entries) # Len(layout)
    THEN "BindingsNumMismatch"
    ELSE LET i == FirstBadEntry(layout, entries)
         IN  IF i # 0
             THEN IF \A j \in 1..Len(layout) : layout[j].binding # entries[i].binding
                  THEN "MissingBindingDeclaration"
                  ELSE "WrongBindingType"
             ELSE IF \E m \in 1..Len(entries), k \in 1..Len(entries) :
                        m # k /\ entries[m].binding = entries[k].binding
             THEN "DuplicateBinding"
             ELSE "Ok"

\* A plausible slip in the texture bind group: the sampler and the texture
\* view are listed under each other's binding.
TextureGroupEntriesSwapped ==
    <<GroupEntry(0, "Sampler"), GroupEntry(1, "TextureView")>>

\* entries of diffuse_bind_group (t04) / diffuse_bindgroup (t006)
TextureGroupEntries ==
    <<GroupEntry(0, "TextureView"), GroupEntry(1, "Sampler")>>

\* entries of view_bindgroup and projection_bindgroup (t006)
Mat4GroupEntries == <<GroupEntry(0, "Buffer")>>

\* device.create_bind_group(&BindGroupDescriptor { label, layout, entries })
create_bind_group(name, layout, entries) ==
    [name |-> name, layout |-> layout, entries |-> entries,
     result |-> BindGroupError(BindGroupLayoutOf(layout), entries)]

\* The bind groups each run function creates, in creation order.
BindGroupsOf(v) ==
    CASE v = "t04" ->
            <<create_bind_group("diffuse_bind_group", "texture_bind_group_layout",
                                TextureGroupEntries)>>
      [] v = "t006" ->
            <<create_bind_group("diffuse_bindgroup", "texture_bind_group_layout",
                                TextureGroupEntries),
              create_bind_group("view_bindgroup", "mat4_bindgroup_layout",
                                Mat4GroupEntries),
              create_bind_group("projection_bindgroup", "mat4_bindgroup_layout",
                                Mat4GroupEntries)>>
      [] OTHER -> <<>>

\* PipelineLayoutDescriptor::bind_group_layouts of each pipeline layout.
PipelineLayoutOf(v) ==
    CASE v = "t04" -> <<"texture_bind_group_layout">>
      [] v = "t006" -> <<"texture_bind_group_layout", "mat4_bindgroup_layout",
                         "mat4_bindgroup_layout">>
      [] OTHER -> <<>>

\* ------------------------------------------------------------------- state
VARIABLES
    tutorial,             \* the binary that was started
    cli_version,          \* t02-triangle: the --version argument, or "absent"
    pc,                   \* "main", "request_adapter", "request_device", "setup", "loop", "done"
    variant,              \* the run function entered: "none", "t001", "v1", "v2", "v3", "t03", "t04", "t006"
    exit_status,          \* "running", "success", "failure"
    diagnostic,           \* the last diagnostic written before the process ended ("" if none)
    adapter,              \* "none", then "acquired" or "unavailable" (request_adapter gave None)
    device,               \* "none", then "acquired" or "rejected" (request_device gave Err)
    loops_started,        \* number of calls of event_loop.run
    window_size,          \* size of the window: the initial inner_size, then the last Resized size
    config,               \* the SurfaceConfiguration held by the closure
    surface_config,       \* the configuration the surface was last configured with
    control_flow,         \* the event loop's ControlFlow
    phase,                \* position inside one iteration of the event loop
    redraw_requested,     \* a RedrawRequested event is pending for the window
    transform,            \* t006: the closure's Transform
    last_frame_game_time, \* t006: the closure's last_frame_game_time
    delta_sum,            \* t006: sum of the delta_time of every tick so far (history)
    ticks,                \* number of RedrawRequested events handled
    frames_acquired,      \* number of successful surface.get_current_texture calls
    frames_presented,     \* number of frame.present calls
    frame,                \* size of the last frame texture acquired
    last_acquire,         \* result of the last get_current_texture call
    last_event,           \* the event the closure handled last
    calls,                \* what the last handler invocation did, in order
    bind_groups,          \* the bind groups created with device.create_bind_group
    transform_buf,        \* t006: contents of the transform buffer created last
    translate_sum,        \* t006: sum of the steps passed to add_translate (history)
    frames_submitted,     \* number of queue.submit calls
    projection,           \* t006: the projection matrix held by projection_buffer (<<>> if none)
    created               \* how often each long-lived object was created, by its binding's name

vars == <<tutorial, cli_version, pc, variant, exit_status, diagnostic, adapter, device,
          loops_started, window_size, config, surface_config, control_flow, phase,
          redraw_requested, transform, last_frame_game_time, delta_sum, ticks,
          frames_acquired, frames_presented, frame, last_acquire, last_event, calls,
          bind_groups, transform_buf, translate_sum, frames_submitted, projection,
          created>>

Tutorials == {"t001", "t02", "t03", "t04", "t006"}
\* Values of --version tried for t02-triangle; "absent" is no argument.
CliVersions == {"absent", "v1", "v2", "v3", "v4", "V1", ""}

Size(w, h) == [width |-> w, height |-> h]
\* Sizes a Resized event may carry (0 x 0 for a minimised window).
Sizes == {Size(0, 0)} \cup {Size(w, h) : w \in 1..MaxDim, h \in 1..MaxDim}
\* Sizes of a freshly built window: a square one and a wide one.
InitialSizes == {Size(1, 1), Size(MaxDim, 1)}

Unconfigured ==
    [usage |-> "none", format |-> "none", width |-> -1, height |-> -1,
     present_mode |-> "none", alpha_mode |-> "none"]
NoFrame == Size(-1, -1)

\* winit events, as far as the closures tell them apart.
Ev(kind, window, size, state, key) ==
    [kind |-> kind, window |-> window, size |-> size, state |-> state, key |-> key]
NoEvent == Ev("none", "-", NoFrame, "-", "-")
PlainEvent(kind) == Ev(kind, "-", NoFrame, "-", "-")
WindowIds == {"own", "other"}
ElementStates == {"Pressed", "Released"}
Keys == {"Escape", "A"}
WindowEvents ==
    {Ev("Resized", "own", sz, "-", "-") : sz \in Sizes}
    \cup {Ev("Resized", "other", Size(MaxDim, MaxDim), "-", "-")}
    \cup {Ev("CloseRequested", w, NoFrame, "-", "-") : w \in WindowIds}
    \cup {Ev("KeyboardInput", "own", NoFrame, st, k) : st \in ElementStates, k \in Keys}
\* Events every closure sends to its `_ => {}` arm.
OtherEvents == {PlainEvent("NewEvents")}

\* Results of surface.get_current_texture().
AcquireResults == {"Ok", "Timeout", "Outdated", "Lost", "OutOfMemory"}

\* One step of a handler, for the order of its effects.
Call(op, a, b) == [op |-> op, a |-> a, b |-> b]

\* ----------------------------------------------------------------- start-up
Init ==
    /\ tutorial \in Tutorials
    /\ cli_version \in (IF tutorial = "t02" THEN CliVersions ELSE {"absent"})
    /\ pc = "main"
    /\ variant = "none"
    /\ exit_status = "running"
    /\ diagnostic = ""
    /\ adapter = "none"
    /\ device = "none"
    /\ loops_started = 0
    /\ window_size \in InitialSizes
    /\ config = Unconfigured
    /\ surface_config = Unconfigured
    /\ control_flow = "Poll"
    /\ phase = "events"
    /\ redraw_requested = FALSE
    /\ transform = TransformNew
    /\ last_frame_game_time = 0
    /\ delta_sum = 0
    /\ ticks = 0
    /\ frames_acquired = 0
    /\ frames_presented = 0
    /\ frame = NoFrame
    /\ last_acquire = "none"
    /\ last_event = NoEvent
    /\ calls = <<>>
    /\ bind_groups = <<>>
    /\ transform_buf = <<>>
    /\ translate_sum = Zero
    /\ frames_submitted = 0
    /\ projection = <<>>
    /\ created = <<>>

\* Args::parse(): #[arg(default_value_t = String::from("v1"))] version.
ArgsVersion(cli) == IF cli = "absent" THEN "v1" ELSE cli

\* A plausible slip in main's match: the fallback arm runs run_v1 instead of
\* logging and returning.
RunForFallback(tut, version) ==
    IF tut = "t02"
    THEN (IF version \in {"v1", "v2", "v3"} THEN version ELSE "v1")
    ELSE tut

\* main: the run function entered, "none" when main's match takes its `_` arm.
RunFor(tut, version) ==
    IF tut = "t02"
    THEN (IF version \in {"v1", "v2", "v3"} THEN version ELSE "none")
    ELSE tut

\* The objects each step creates and keeps for the life of the process, by
\* the name of the binding that holds them.  The view, encoder and pass of
\* one frame are dropped at the end of their tick and are not counted.
CreatedCount(c, name) == IF name \in DOMAIN c THEN c[name] ELSE 0

CreateOne(c, name) ==
    [n \in DOMAIN c \cup {name} |-> IF n = name THEN CreatedCount(c, n) + 1 ELSE c[n]]

RECURSIVE CreateAll(_, _)
CreateAll(c, names) ==
    IF names = <<>> THEN c ELSE CreateAll(CreateOne(c, Head(names)), Tail(names))

\* let instance = Instance::new(..); let surface = instance.create_surface(..)
InstanceObjects == <<"instance", "surface">>

\* let (device, queue) = adapter.request_device(..)
DeviceObjects == <<"device", "queue">>

\* What run() creates between request_device and event_loop.run.
StartupObjects(v) ==
    CASE v = "v1" -> <<"render_pipeline">>
      [] v \in {"v2", "v3"} -> <<"render_pipeline", "vertex_buffer">>
      [] v = "t03" -> <<"render_pipeline", "vertices_buf", "indices_buf">>
      [] v = "t04" -> <<"diffuse_texture", "diffuse_bind_group", "render_pipeline",
                       "vertices_buf", "indices_buf">>
      [] v = "t006" -> <<"diffuse_texture", "diffuse_bindgroup", "view_buffer",
                        "projection_buffer", "view_bindgroup", "projection_bindgroup",
                        "render_pipeline", "vertices_buf", "indices_buf">>
      [] OTHER -> <<>>

\* A plausible slip: the surface is created again for every frame.
TickObjectsNewSurface(v) ==
    <<"surface">> \o (IF v = "t006" THEN <<"transform_buf">> ELSE <<>>)

\* A plausible slip: the mesh is uploaded again for every frame.
TickObjectsNewMesh(v) ==
    IF v = "t006" THEN <<"transform_buf", "vertices_buf", "indices_buf">>
    ELSE IF v \in {"t03", "t04"} THEN <<"vertices_buf", "indices_buf">>
    ELSE <<>>

\* What the RedrawRequested arm creates with device.create_buffer_init.
TickObjects(v) == IF v = "t006" THEN <<"transform_buf">> ELSE <<>>

LoopVars == <<window_size, config, surface_config, control_flow, phase, redraw_requested,
              transform, last_frame_game_time, delta_sum, ticks, frames_acquired,
              frames_presented, frame, last_acquire, last_event, calls, transform_buf,
              translate_sum, frames_submitted>>

\* fn main(): parse the arguments, build the window, enter a run function
\* or, for an unknown version, log and return.
Main ==
    /\ pc = "main"
    /\ LET run == RunFor(tutorial, ArgsVersion(cli_version))
       IN  /\ variant' = run
           /\ IF run = "none"
              THEN /\ pc' = "done"
                   /\ exit_status' = "success"
                   /\ diagnostic' = "invalid version, exit"
                   /\ UNCHANGED created
              ELSE /\ pc' = "request_adapter"
                   /\ created' = CreateAll(created, InstanceObjects)
                   /\ UNCHANGED <<exit_status, diagnostic>>
    /\ UNCHANGED <<tutorial, cli_version, adapter, device, loops_started, bind_groups,
                   projection>>
    /\ UNCHANGED LoopVars

\* A plausible slip: a missing adapter or a rejected device is not checked.
ExpectIgnored(result) == FALSE

\* Option::expect / Result::expect: panics on None / Err.
ExpectPanics(result) == result \in {"None", "Err"}

\* instance.request_adapter(..).await.expect("Failed to find an appropriate adapter")
RequestAdapter ==
    /\ pc = "request_adapter"
    /\ \E result \in {"Some", "None"} :
          /\ adapter' = IF result = "Some" THEN "acquired" ELSE "unavailable"
          /\ created' = IF result = "Some" THEN CreateOne(created, "adapter") ELSE created
          /\ IF ExpectPanics(result)
             THEN /\ pc' = "done"
                  /\ exit_status' = "failure"
                  /\ diagnostic' = "Failed to find an appropriate adapter"
             ELSE /\ pc' = "request_device"
                  /\ UNCHANGED <<exit_status, diagnostic>>
    /\ UNCHANGED <<tutorial, cli_version, variant, device, loops_started, bind_groups,
                   projection>>
    /\ UNCHANGED LoopVars

\* adapter.request_device(..).await.expect("Fail to create device")
RequestDevice ==
    /\ pc = "request_device"
    /\ \E result \in {"Ok", "Err"} :
          /\ device' = IF result = "Ok" THEN "acquired" ELSE "rejected"
          /\ created' = IF result = "Ok" THEN CreateAll(created, DeviceObjects) ELSE created
          /\ IF ExpectPanics(result)
             THEN /\ pc' = "done"
                  /\ exit_status' = "failure"
                  /\ diagnostic' = "Fail to create device"
             ELSE /\ pc' = "setup"
                  /\ UNCHANGED <<exit_status, diagnostic>>
    /\ UNCHANGED <<tutorial, cli_version, variant, adapter, loops_started, bind_groups,
                   projection>>
    /\ UNCHANGED LoopVars

\* t006-coord is the tutorial with a Transform, a clock and matrices.
Animated(v) == v = "t006"

\* surface.get_supported_formats(&adapter) and
\* surface.get_supported_alpha_modes(&adapter): what the platform reports,
\* its preferred entry first.
SupportedFormats == <<"Bgra8UnormSrgb", "Rgba8UnormSrgb", "Rgba16Float">>
SupportedAlphaModes == <<"Opaque", "PostMultiplied">>

\* let preferred_format = surface.get_supported_formats(&adapter)[0];
preferred_format == SupportedFormats[1]

\* FragmentState::targets of the render pipeline; t001-window builds none.
RenderPipelineTargets(v) == IF v = "t001" THEN <<>> ELSE <<preferred_format>>

\* SurfaceConfiguration { usage: RENDER_ATTACHMENT, format: preferred_format,
\*                        width: size.width, height: size.height,
\*                        present_mode: PresentMode::Fifo,
\*                        alpha_mode: surface.get_supported_alpha_modes(&adapter)[0] }
InitialConfig(size) ==
    [usage |-> "RENDER_ATTACHMENT", format |-> preferred_format,
     width |-> size.width, height |-> size.height,
     present_mode |-> "Fifo", alpha_mode |-> SupportedAlphaModes[1]]

\* The rest of run() up to event_loop.run: create the bind groups, build the
\* pipeline and buffers, configure the surface with the window's size,
\* create the Transform, and start the loop.  A bind group that fails
\* validation is reported to wgpu's default error handler, which panics.
Setup ==
    /\ pc = "setup"
    /\ bind_groups' = BindGroupsOf(variant)
    /\ IF \E i \in 1..Len(bind_groups') : bind_groups'[i].result # "Ok"
       THEN /\ pc' = "done"
            /\ exit_status' = "failure"
            /\ diagnostic' = "wgpu error: Validation Error"
            /\ calls' = <<Call("device.create_bind_group", 0, 0)>>
            /\ UNCHANGED <<config, surface_config, transform, last_frame_game_time,
                           loops_started, created, projection>>
       ELSE /\ config' = InitialConfig(window_size)
            /\ projection' = IF Animated(variant) THEN ProjectionFor(window_size)
                              ELSE projection
            /\ created' = CreateAll(created, StartupObjects(variant))
            /\ surface_config' = config'
            /\ transform' = TransformNew
            /\ last_frame_game_time' = 0
            /\ loops_started' = loops_started + 1
            /\ pc' = "loop"
            /\ calls' = <<Call("surface.configure", window_size.width, window_size.height),
                          Call("event_loop.run", 0, 0)>>
            /\ UNCHANGED <<exit_status, diagnostic>>
    /\ UNCHANGED <<tutorial, cli_version, variant, adapter, device,
                   window_size, control_flow, phase, redraw_requested, delta_sum, ticks,
                   frames_acquired, frames_presented, frame, last_acquire, last_event,
                   transform_buf, translate_sum, frames_submitted>>

\* --------------------------------------------------------------- the closure
\* Which arms each closure has.  t001-window has no Resized arm (its config is
\* immutable); the three t02-triangle versions have no RedrawEventsCleared arm.
HasResizedArm(v) == v \in {"v1", "v2", "v3", "t03", "t04", "t006"}
HasRedrawEventsClearedArm(v) == v \in {"t001", "t03", "t04", "t006"}

\* The closure starts with *control_flow = ControlFlow::Wait and an exit arm
\* then stores ControlFlow::Exit.  winit makes Exit sticky: once it is set the
\* closure is handed a scratch copy and the loop's own value stays Exit.
ControlFlowAfter(cf, exits) ==
    IF cf = "Exit" THEN "Exit" ELSE IF exits THEN "Exit" ELSE "Wait"

\* A plausible slip in the exit pattern: the key's ElementState is not matched,
\* and the Escape arm is lost, so only CloseRequested exits.
IsExitEventCloseOnly(ev) == ev.kind = "CloseRequested"

\* WindowEvent::CloseRequested
\* | WindowEvent::KeyboardInput { input: KeyboardInput { state: Pressed,
\*                                 virtual_keycode: Some(Escape), .. }, .. }
IsExitEvent(ev) ==
    \/ ev.kind = "CloseRequested"
    \/ ev.kind = "KeyboardInput" /\ ev.state = "Pressed" /\ ev.key = "Escape"

\* A plausible slip: the window id guard is left out of the match arm.
ForAnyWindow(ev) == TRUE

\* Event::WindowEvent { window_id, event } if window_id == window.id()
ForOwnWindow(ev) == ev.window = "own"

\* A plausible slip in the Resized arm: width and height are swapped.
ResizedConfigSwapped(cfg, size) ==
    [cfg EXCEPT !.width = size.height, !.height = size.width]

\* A plausible slip in the Resized arm: the configuration is rebuilt and
\* the present mode chosen anew.
ResizedConfigRebuilt(cfg, size) ==
    [cfg EXCEPT !.width = size.width, !.height = size.height, !.present_mode = "Mailbox"]

\* config.width = size.width; config.height = size.height;
ResizedConfig(cfg, size) ==
    [cfg EXCEPT !.width = size.width, !.height = size.height]

StartupVars == <<tutorial, cli_version, variant, adapter, device, loops_started,
                 bind_groups, projection>>
TickVars == <<transform, last_frame_game_time, delta_sum, ticks, frames_acquired,
              frames_presented, frame, last_acquire, transform_buf, translate_sum,
              frames_submitted, created>>

\* WindowEvent::Resized(size) in a closure that has the arm.
HandleResized ==
    /\ pc = "loop"
    /\ phase = "events"
    /\ HasResizedArm(variant)
    /\ \E ev \in WindowEvents :
          /\ ev.kind = "Resized"
          /\ ForOwnWindow(ev)
          /\ last_event' = ev
          /\ window_size' = ev.size
          /\ config' = ResizedConfig(config, ev.size)
          /\ surface_config' = config'
          /\ redraw_requested' = TRUE
          /\ calls' = <<Call("config.width", config'.width, 0),
                        Call("config.height", config'.height, 0),
                        Call("surface.configure", config'.width, config'.height),
                        Call("window.request_redraw", 0, 0)>>
    /\ control_flow' = ControlFlowAfter(control_flow, FALSE)
    /\ UNCHANGED <<pc, exit_status, diagnostic, phase>>
    /\ UNCHANGED StartupVars
    /\ UNCHANGED TickVars

\* CloseRequested or Escape pressed, for the application's window.
HandleExitEvent ==
    /\ pc = "loop"
    /\ phase = "events"
    /\ \E ev \in WindowEvents :
          /\ ForOwnWindow(ev)
          /\ IsExitEvent(ev)
          /\ last_event' = ev
    /\ control_flow' = ControlFlowAfter(control_flow, TRUE)
    /\ calls' = <<Call("info: exit", 0, 0)>>
    /\ UNCHANGED <<pc, exit_status, diagnostic, phase, window_size, config, surface_config,
                   redraw_requested>>
    /\ UNCHANGED StartupVars
    /\ UNCHANGED TickVars

\* Every other window event: one for another window id (the outer `_` arm),
\* or one of the own window that the inner match sends to `_ => {}`; in
\* t001-window that includes Resized.
HandleIgnoredWindowEvent ==
    /\ pc = "loop"
    /\ phase = "events"
    /\ \E ev \in WindowEvents :
          /\ \/ ~ForOwnWindow(ev)
             \/ /\ ~IsExitEvent(ev)
                /\ ~(ev.kind = "Resized" /\ HasResizedArm(variant))
          /\ last_event' = ev
          /\ window_size' = IF ForOwnWindow(ev) /\ ev.kind = "Resized"
                            THEN ev.size ELSE window_size
    /\ control_flow' = ControlFlowAfter(control_flow, FALSE)
    /\ calls' = <<>>
    /\ UNCHANGED <<pc, exit_status, diagnostic, phase, config, surface_config,
                   redraw_requested>>
    /\ UNCHANGED StartupVars
    /\ UNCHANGED TickVars

\* Events no closure names (NewEvents, DeviceEvent, ..): the `_ => {}` arm.
HandleOtherEvent ==
    /\ pc = "loop"
    /\ phase = "events"
    /\ \E ev \in OtherEvents : last_event' = ev
    /\ control_flow' = ControlFlowAfter(control_flow, FALSE)
    /\ calls' = <<>>
    /\ UNCHANGED <<pc, exit_status, diagnostic, phase, window_size, config, surface_config,
                   redraw_requested>>
    /\ UNCHANGED StartupVars
    /\ UNCHANGED TickVars

\* Event::MainEventsCleared (the `_ => {}` arm): the loop has delivered the
\* iteration's window events and turns to the redraws.  The window system may
\* itself have invalidated the window by now.
HandleMainEventsCleared ==
    /\ pc = "loop"
    /\ phase = "events"
    /\ last_event' = PlainEvent("MainEventsCleared")
    /\ phase' = "redraws"
    /\ \E invalidated \in BOOLEAN : redraw_requested' = (redraw_requested \/ invalidated)
    /\ control_flow' = ControlFlowAfter(control_flow, FALSE)
    /\ calls' = <<>>
    /\ UNCHANGED <<pc, exit_status, diagnostic, window_size, config, surface_config>>
    /\ UNCHANGED StartupVars
    /\ UNCHANGED TickVars

\* A plausible slip: the whole elapsed time is used as the frame's delta.
DeltaTimeElapsed(game_time, last) == game_time

\* A plausible slip: the operands of the subtraction are exchanged.
DeltaTimeReversed(game_time, last) == last - game_time

\* let delta_time = game_time - last_frame_game_time;
DeltaTime(game_time, last) == game_time - last

\* A plausible slip: the clamp is left out.
ScaleAtUnclamped(game_time) == Sin(game_time)

\* game_time.sin().max(0.1)
ScaleAt(game_time) == NMax(Sin(game_time), Tenth)

\* game_time.cos() / 100.
TranslateStep(game_time) == NDiv100(Cos(game_time))

\* transform = transform.rotate_x(delta_time);
\* transform = transform.add_translate(game_time.cos() / 100.);
\* transform = transform.set_scale(game_time.sin().max(0.1));
AdvanceTransform(t, game_time, delta_time) ==
    set_scale(add_translate(rotate_x(t, delta_time), TranslateStep(game_time)),
              ScaleAt(game_time))

\* A call that names the object it binds.
Bind(op, slot, what) == [op |-> op, a |-> slot, b |-> 0, what |-> what]

\* A plausible slip: t006-coord binds the texture group only, as the
\* texture tutorial it grew out of does.
BindGroupCallsTextureOnly(v) ==
    CASE v = "t04" -> <<Bind("rpass.set_bind_group", 0, "diffuse_bind_group")>>
      [] v = "t006" -> <<Bind("rpass.set_bind_group", 0, "diffuse_bindgroup")>>
      [] OTHER -> <<>>

\* The rpass.set_bind_group calls of each closure, in order.
BindGroupCalls(v) ==
    CASE v = "t04" -> <<Bind("rpass.set_bind_group", 0, "diffuse_bind_group")>>
      [] v = "t006" -> <<Bind("rpass.set_bind_group", 0, "diffuse_bindgroup"),
                         Bind("rpass.set_bind_group", 1, "view_bindgroup"),
                         Bind("rpass.set_bind_group", 2, "projection_bindgroup")>>
      [] OTHER -> <<>>

\* What each closure records on its render pass, in order.  A draw call is
\* logged with its vertex or index count and its instance count.
\* t001-window only clears: it sets no pipeline and draws nothing.
RenderPassCalls(v) ==
    CASE v = "v1" ->
            <<Call("rpass.set_pipeline", 0, 0),
              Call("rpass.draw", 3, 1)>>
      [] v = "v2" ->
            <<Call("rpass.set_pipeline", 0, 0),
              Bind("rpass.set_vertex_buffer", 0, "vertex_buffer"),
              Call("rpass.draw", 3, 1)>>
      [] v = "v3" ->
            <<Call("rpass.set_pipeline", 0, 0),
              Bind("rpass.set_vertex_buffer", 0, "vertex_buffer"),
              Call("rpass.draw", Len(VERTICES_TWO_TRIANGLE), 1)>>
      [] v = "t03" ->
            <<Call("rpass.set_pipeline", 0, 0),
              Bind("rpass.set_vertex_buffer", 0, "vertices_buf"),
              Bind("rpass.set_index_buffer", 0, "indices_buf"),
              Call("rpass.draw_indexed", Len(IndicesOf(v)), 1)>>
      [] v = "t04" ->
            <<Call("rpass.set_pipeline", 0, 0)>>
            \o BindGroupCalls(v)
            \o <<Bind("rpass.set_vertex_buffer", 0, "vertices_buf"),
                 Bind("rpass.set_index_buffer", 0, "indices_buf"),
                 Call("rpass.draw_indexed", Len(IndicesOf(v)), 1)>>
      [] v = "t006" ->
            <<Call("rpass.set_pipeline", 0, 0)>>
            \o BindGroupCalls(v)
            \o <<Bind("rpass.set_vertex_buffer", 0, "vertices_buf"),
                 Bind("rpass.set_vertex_buffer", 1, "transform_buf"),
                 Bind("rpass.set_index_buffer", 0, "indices_buf"),
                 Call("rpass.draw_indexed", Len(IndicesOf(v)), 1)>>
      [] OTHER -> <<>>

\* A plausible slip: the frame is dropped without frame.present().
RenderCallsNoPresent(v) ==
    <<Call("frame.texture.create_view", 0, 0),
      Call("device.create_command_encoder", 0, 0),
      Call("encoder.begin_render_pass", 0, 0)>>
    \o RenderPassCalls(v)
    \o <<Call("queue.submit", 0, 0)>>

\* What the RedrawRequested arm does after a frame was acquired.
RenderCalls(v) ==
    <<Call("frame.texture.create_view", 0, 0),
      Call("device.create_command_encoder", 0, 0),
      Call("encoder.begin_render_pass", 0, 0)>>
    \o RenderPassCalls(v)
    \o <<Call("queue.submit", 0, 0),
         Call("frame.present", 0, 0)>>

\* Number of calls of one operation in a handler's log.
CountOp(cs, op) == Cardinality({i \in 1..Len(cs) : cs[i].op = op})

\* A plausible slip: the matrix is taken before the Transform is advanced.
FrameMatrixStale(t, game_time, delta_time) == to_mat4(t)

\* let mat4 = transform.to_mat4(); after the three updates of the tick.
FrameMatrix(t, game_time, delta_time) ==
    to_mat4(AdvanceTransform(t, game_time, delta_time))

\* Event::RedrawRequested(_): t006 first advances the Transform and builds
\* the transform buffer; every closure then acquires the frame with
\* .expect(..), records the pass, submits and presents.  An Err from
\* get_current_texture panics: the process ends with a failure status.
HandleRedrawRequested ==
    /\ pc = "loop"
    /\ phase = "redraws"
    /\ redraw_requested
    /\ ticks < MaxTicks
    /\ last_event' = PlainEvent("RedrawRequested")
    /\ redraw_requested' = FALSE
    /\ ticks' = ticks + 1
    /\ control_flow' = ControlFlowAfter(control_flow, FALSE)
    /\ \E game_time \in last_frame_game_time..MaxTime, result \in AcquireResults :
          LET delta_time == DeltaTime(game_time, last_frame_game_time)
              before == IF Animated(variant)
                        THEN <<Call("now.elapsed", game_time, delta_time),
                               Call("transform.rotate_x", delta_time, 0),
                               Call("transform.add_translate", game_time, 0),
                               Call("transform.set_scale", game_time, 0),
                               Call("transform.to_mat4", 0, 0),
                               Call("device.create_buffer_init", 0, 0)>>
                        ELSE <<>>
              acquire == <<Call("surface.get_current_texture",
                                surface_config.width, surface_config.height)>>
          IN  /\ IF Animated(variant)
                 THEN /\ last_frame_game_time' = game_time
                      /\ delta_sum' = delta_sum + delta_time
                      /\ translate_sum' = NAdd(translate_sum, TranslateStep(game_time))
                      /\ transform' = AdvanceTransform(transform, game_time, delta_time)
                      /\ transform_buf' =
                            Mat4Contents(FrameMatrix(transform, game_time, delta_time))
                 ELSE /\ game_time = last_frame_game_time
                      /\ UNCHANGED <<last_frame_game_time, delta_sum, translate_sum,
                                     transform, transform_buf>>
              /\ last_acquire' = result
              /\ IF result = "Ok"
                 THEN /\ frame' = Size(surface_config.width, surface_config.height)
                      /\ frames_acquired' = frames_acquired + 1
                      /\ calls' = before \o acquire \o RenderCalls(variant)
                      /\ UNCHANGED <<pc, exit_status, diagnostic>>
                 ELSE /\ pc' = "done"
                      /\ exit_status' = "failure"
                      /\ diagnostic' = "Fail to request next swap chain texture"
                      /\ calls' = before \o acquire
                      /\ UNCHANGED <<frame, frames_acquired>>
              /\ created' = CreateAll(created, TickObjects(variant))
              /\ frames_submitted' = frames_submitted + CountOp(calls', "queue.submit")
              /\ frames_presented' = frames_presented + CountOp(calls', "frame.present")
    /\ UNCHANGED <<phase, window_size, config, surface_config>>
    /\ UNCHANGED StartupVars

\* Event::RedrawEventsCleared: t001, t03, t04 and t006 call
\* window.request_redraw(); the t02 closures send it to `_ => {}`.  It ends
\* the iteration.
HandleRedrawEventsCleared ==
    /\ pc = "loop"
    /\ phase = "redraws"
    /\ ~redraw_requested
    /\ last_event' = PlainEvent("RedrawEventsCleared")
    /\ phase' = "events"
    /\ IF HasRedrawEventsClearedArm(variant)
       THEN /\ redraw_requested' = TRUE
            /\ calls' = <<Call("window.request_redraw", 0, 0)>>
       ELSE /\ redraw_requested' = FALSE
            /\ calls' = <<>>
    /\ control_flow' = ControlFlowAfter(control_flow, FALSE)
    /\ UNCHANGED <<pc, exit_status, diagnostic, window_size, config, surface_config>>
    /\ UNCHANGED StartupVars
    /\ UNCHANGED TickVars

\* The loop finds ControlFlow::Exit: it hands Event::LoopDestroyed to the
\* closure (the `_ => {}` arm) and ends the process with exit code 0.  How
\* much of the current iteration a backend still delivers before that is the
\* backend's choice, so this may happen in any phase.
HandleLoopDestroyed ==
    /\ pc = "loop"
    /\ control_flow = "Exit"
    /\ last_event' = PlainEvent("LoopDestroyed")
    /\ calls' = <<>>
    /\ pc' = "done"
    /\ exit_status' = "success"
    /\ UNCHANGED <<diagnostic, window_size, config, surface_config, control_flow, phase,
                   redraw_requested>>
    /\ UNCHANGED StartupVars
    /\ UNCHANGED TickVars

Next ==
    \/ Main
    \/ RequestAdapter
    \/ RequestDevice
    \/ Setup
    \/ HandleResized
    \/ HandleExitEvent
    \/ HandleIgnoredWindowEvent
    \/ HandleOtherEvent
    \/ HandleMainEventsCleared
    \/ HandleRedrawRequested
    \/ HandleRedrawEventsCleared
    \/ HandleLoopDestroyed

Spec == Init /\ [][Next]_vars

\* ------------------------------------------- the Transform operations alone
\* A second specification for the claims about Transform's pure functions:
\* it starts from Transform::new() and applies rotate_x / rotate_y /
\* rotate_z, add_translate and set_scale in any order, with the arguments
\* the closure can pass.  `ticks` counts the operations applied.
HarnessInit(start) ==
    /\ tutorial = "t006"
    /\ cli_version = "absent"
    /\ pc = start
    /\ variant = "t006"
    /\ exit_status = "running"
    /\ diagnostic = ""
    /\ adapter = "none"
    /\ device = "none"
    /\ loops_started = 0
    /\ window_size = Size(1, 1)
    /\ config = Unconfigured
    /\ surface_config = Unconfigured
    /\ control_flow = "Poll"
    /\ phase = "events"
    /\ redraw_requested = FALSE
    /\ transform = TransformNew
    /\ last_frame_game_time = 0
    /\ delta_sum = 0
    /\ ticks = 0
    /\ frames_acquired = 0
    /\ frames_presented = 0
    /\ frame = NoFrame
    /\ last_acquire = "none"
    /\ last_event = NoEvent
    /\ calls = <<>>
    /\ bind_groups = <<>>
    /\ transform_buf = <<>>
    /\ translate_sum = Zero
    /\ frames_submitted = 0
    /\ projection = <<>>
    /\ created = <<>>

TransformInit == HarnessInit("transform_ops")

OpFrame ==
    /\ pc = "transform_ops"
    /\ ticks < MaxOps
    /\ ticks' = ticks + 1
    /\ UNCHANGED <<tutorial, cli_version, pc, variant, exit_status, diagnostic, adapter,
                   device, loops_started, window_size, config, surface_config, control_flow,
                   phase, redraw_requested, last_frame_game_time, delta_sum,
                   frames_acquired, frames_presented, frame, last_acquire, last_event,
                   bind_groups, transform_buf, translate_sum, frames_submitted, projection,
                   created>>

\* Quarter turns and clock readings used as arguments.
OpAngles == 0..3
OpTimes == 0..3

OpRotateX ==
    /\ OpFrame
    /\ \E d \in OpAngles :
          /\ transform' = rotate_x(transform, d)
          /\ calls' = <<Call("transform.rotate_x", d, 0)>>

OpRotateY ==
    /\ OpFrame
    /\ \E d \in OpAngles :
          /\ transform' = rotate_y(transform, d)
          /\ calls' = <<Call("transform.rotate_y", d, 0)>>

OpRotateZ ==
    /\ OpFrame
    /\ \E d \in OpAngles :
          /\ transform' = rotate_z(transform, d)
          /\ calls' = <<Call("transform.rotate_z", d, 0)>>

OpAddTranslate ==
    /\ OpFrame
    /\ \E g \in OpTimes :
          /\ transform' = add_translate(transform, TranslateStep(g))
          /\ calls' = <<Call("transform.add_translate", g, 0)>>

OpSetScale ==
    /\ OpFrame
    /\ \E g \in OpTimes :
          /\ transform' = set_scale(transform, ScaleAt(g))
          /\ calls' = <<Call("transform.set_scale", g, 0)>>

TransformNext ==
    \/ OpRotateX
    \/ OpRotateY
    \/ OpRotateZ
    \/ OpAddTranslate
    \/ OpSetScale

TransformSpec == TransformInit /\ [][TransformNext]_vars

\* ------------------------------------------- device.create_bind_group alone
\* A third specification for the creation of bind groups: the bind groups
\* of one run function, and one more bind group with any short list of
\* entries against either of the program's two layouts.  As in Setup, no
\* error scope is open, so a bind group that fails validation reaches wgpu's
\* default error handler, which panics.

BindInit == HarnessInit("bind_group_ops")

BindFrame ==
    /\ pc = "bind_group_ops"
    /\ ticks' = ticks + 1
    /\ UNCHANGED <<tutorial, cli_version, variant, adapter,
                   device, loops_started, window_size, config, surface_config, control_flow,
                   phase, redraw_requested, last_frame_game_time, delta_sum,
                   frames_acquired, frames_presented, frame, last_acquire, last_event,
                   transform, transform_buf, translate_sum, frames_submitted, projection,
                   created>>

\* What follows the creation of the bind groups: nothing if all are valid,
\* the panic of the default error handler otherwise.
BindOutcome ==
    IF \E i \in 1..Len(bind_groups') : bind_groups'[i].result # "Ok"
    THEN /\ pc' = "done"
         /\ exit_status' = "failure"
         /\ diagnostic' = "wgpu error: Validation Error"
    ELSE UNCHANGED <<pc, exit_status, diagnostic>>

BindingResources == {"TextureView", "Sampler", "Buffer"}
LayoutNames == {"texture_bind_group_layout", "mat4_bindgroup_layout"}

\* Entry lists of up to MaxEntries entries, with bindings 0..MaxEntries.
EntryLists ==
    UNION {[1..n -> {GroupEntry(k, r) : k \in 0..MaxEntries, r \in BindingResources}] :
           n \in 0..MaxEntries}

\* The bind groups one run function creates.
OpCreateProgramGroups ==
    /\ BindFrame
    /\ bind_groups = <<>>
    /\ \E v \in {"t04", "t006"} :
          /\ bind_groups' = BindGroupsOf(v)
          /\ calls' = <<Bind("device.create_bind_group", Len(bind_groups'), v)>>
    /\ BindOutcome

\* One more bind group, with arbitrary entries.
OpCreateBindGroup ==
    /\ BindFrame
    /\ \A i \in 1..Len(bind_groups) : bind_groups[i].name # "probe"
    /\ \E layout \in LayoutNames, entries \in EntryLists :
          /\ bind_groups' = Append(bind_groups,
                                   create_bind_group("probe", layout, entries))
          /\ calls' = <<Bind("device.create_bind_group", 1, "probe")>>
    /\ BindOutcome

BindNext ==
    \/ OpCreateProgramGroups
    \/ OpCreateBindGroup

BindSpec == BindInit /\ [][BindNext]_vars

\* ------------------------------------------------------------------ claims

\* C1: in every tutorial, the frame acquired in a RedrawRequested tick has
\* the size carried by the most recent Resized event for the window, or the
\* initial window size if there was none.
C1_FrameHasWindowSize ==
    (last_event.kind = "RedrawRequested" /\ last_acquire = "Ok") => frame = window_size

\* C2: when get_current_texture fails with a transient error (Lost, Timeout)
\* the tick is skipped, another redraw is requested and the loop goes on.
C2_TransientAcquireErrorSkipsTick ==
    last_acquire \in {"Lost", "Timeout"} =>
        /\ pc = "loop"
        /\ exit_status = "running"
        /\ redraw_requested

\* C3: once CloseRequested or Escape has been handled (the loop's control
\* flow is Exit), no frame is acquired, submitted or presented any more.
C3_NoFrameAfterClose ==
    [][control_flow = "Exit" =>
          /\ frames_acquired' = frames_acquired
          /\ frames_presented' = frames_presented]_vars

\* C4: in every tutorial, handling Escape-pressed and handling CloseRequested
\* for the own window lead to the same state: control flow Exit, the exit
\* log line, and nothing else of the closure's state changed.
C4_EscapeEqualsClose ==
    [][(/\ pc = "loop"
        /\ last_event'.window = "own"
        /\ \/ last_event'.kind = "CloseRequested"
           \/ /\ last_event'.kind = "KeyboardInput"
              /\ last_event'.state = "Pressed"
              /\ last_event'.key = "Escape")
       => /\ control_flow' = "Exit"
          /\ calls' = <<Call("info: exit", 0, 0)>>
          /\ UNCHANGED <<pc, exit_status, diagnostic, config, surface_config,
                         redraw_requested, phase, window_size>>
          /\ UNCHANGED StartupVars
          /\ UNCHANGED TickVars]_vars

\* C4 witness: Escape-pressed was handled and the control flow is Exit.
C4_Witness ==
    /\ pc = "loop"
    /\ last_event = Ev("KeyboardInput", "own", NoFrame, "Pressed", "Escape")
    /\ control_flow = "Exit"
    /\ variant = "t001"

\* C5: handling a Resized event for the window sets config.width and
\* config.height, configures the surface with the updated configuration and
\* then requests a redraw, in that order, within that one handler call.
C5_ResizedReconfiguresThenRedraws ==
    (last_event.kind = "Resized" /\ last_event.window = "own") =>
        /\ calls = <<Call("config.width", last_event.size.width, 0),
                     Call("config.height", last_event.size.height, 0),
                     Call("surface.configure", last_event.size.width, last_event.size.height),
                     Call("window.request_redraw", 0, 0)>>
        /\ config.width = last_event.size.width
        /\ config.height = last_event.size.height
        /\ surface_config = config
        /\ redraw_requested

\* C6 (as stated): in the triangle tutorial a render loop is started if and
\* only if the version is "v1", "v2" or "v3" (default "v1"), and then exactly
\* one; for any other version the process ends with a diagnostic, acquires no
\* device and starts no loop.
C6_LoopStartedIffKnownVersion ==
    (tutorial = "t02" /\ pc \in {"loop", "done"}) =>
        LET known == cli_version \in {"absent", "v1", "v2", "v3"}
        IN  /\ (loops_started = 1) <=> known
            /\ ~known => /\ pc = "done"
                         /\ diagnostic = "invalid version, exit"
                         /\ device = "none"
                         /\ loops_started = 0

\* C6 (amended): exactly one of run_v1, run_v2, run_v3 is entered if and only
\* if the version is "v1", "v2" or "v3" (default "v1"), and it starts exactly
\* one render loop unless adapter or device acquisition fails, in which case
\* the process panics before any loop starts; for any other version the
\* process ends with a diagnostic, acquires no device and starts no loop.
C6_RunEnteredIffKnownVersion ==
    (tutorial = "t02" /\ pc # "main") =>
        LET known == cli_version \in {"absent", "v1", "v2", "v3"}
            expected == IF cli_version = "absent" THEN "v1" ELSE cli_version
        IN  /\ (variant # "none") <=> known
            /\ known => variant = expected
            /\ loops_started <= 1
            /\ (known /\ pc = "loop") => loops_started = 1
            /\ (known /\ pc = "done" /\ loops_started = 0) =>
                   /\ exit_status = "failure"
                   /\ (adapter = "unavailable" \/ device = "rejected")
            /\ ~known => /\ pc = "done"
                         /\ diagnostic = "invalid version, exit"
                         /\ adapter = "none"
                         /\ device = "none"
                         /\ loops_started = 0
                         /\ surface_config = Unconfigured
                         /\ last_event = NoEvent

\* C6 witness: an unknown version ended the process with the diagnostic.
C6_Witness ==
    /\ tutorial = "t02"
    /\ cli_version = "v4"
    /\ pc = "done"
    /\ diagnostic = "invalid version, exit"

\* C7: if no adapter is found or the device is rejected, the process ends
\* with a diagnostic and a failure status before the event loop begins (no
\* surface configured, no event handled, no frame acquired); when the loop
\* ends on close/Escape the process ends with success.
C7_StartupFailureIsFatal ==
    /\ (adapter = "unavailable" \/ device = "rejected") =>
           /\ pc = "done"
           /\ exit_status = "failure"
           /\ diagnostic = (IF adapter = "unavailable"
                            THEN "Failed to find an appropriate adapter"
                            ELSE "Fail to create device")
           /\ loops_started = 0
           /\ surface_config = Unconfigured
           /\ last_event = NoEvent
           /\ frames_acquired = 0
    /\ last_event.kind = "LoopDestroyed" =>
           /\ pc = "done"
           /\ exit_status = "success"
           /\ control_flow = "Exit"
    /\ (exit_status = "success" /\ variant # "none") => last_event.kind = "LoopDestroyed"

\* C7 witness: the device was rejected and the process has ended.
C7_Witness ==
    /\ adapter = "acquired"
    /\ device = "rejected"
    /\ pc = "done"
    /\ exit_status = "failure"

\* C8: in the animated tutorial the scale of the Transform is at least 0.1
\* on every axis in every state: 1 before the first tick, and afterwards
\* max(sin(elapsed), 0.1) for the elapsed time of the last tick.
C8_ScaleNeverBelowTenth ==
    variant = "t006" =>
        /\ ~NLess(transform.scale.x, Tenth)
        /\ ~NLess(transform.scale.y, Tenth)
        /\ ~NLess(transform.scale.z, Tenth)
        /\ ticks = 0 => transform.scale = Vec3ONE
        /\ ticks > 0 =>
               LET sine == Sin(last_frame_game_time)
                   clamped == IF NSign(NSub(sine, Tenth)) < 0 THEN Tenth ELSE sine
               IN  transform.scale = Vec3(clamped, clamped, clamped)

\* C8 witness: a tick at an elapsed time whose sine is -1 left the scale 0.1.
C8_Witness ==
    /\ variant = "t006"
    /\ ticks > 0
    /\ Sin(last_frame_game_time) = NNeg(One)
    /\ transform.scale = Vec3splat(Tenth)

\* Rotation by k quarter turns about X, written out as a matrix.
RotationXMatrix(k) ==
    LET c == CASE k % 4 = 0 -> One [] k % 4 = 1 -> Zero [] k % 4 = 2 -> NNeg(One) [] OTHER -> Zero
        sn == CASE k % 4 = 0 -> Zero [] k % 4 = 1 -> One [] k % 4 = 2 -> Zero [] OTHER -> NNeg(One)
    IN  <<<<One, Zero, Zero, Zero>>,
          <<Zero, c, sn, Zero>>,
          <<Zero, NNeg(sn), c, Zero>>,
          <<Zero, Zero, Zero, One>>>>

\* C9: after any sequence of ticks the rotation about X equals the sum of
\* the per-tick deltas, which is the elapsed time T of the last tick; as a
\* rotation it is T modulo a full turn.
C9_RotationEqualsElapsed ==
    variant = "t006" =>
        /\ delta_sum = last_frame_game_time
        /\ transform.rotation = QuatFromAxisAngle(Vec3X, delta_sum)
        /\ Mat4FromQuat(transform.rotation) = RotationXMatrix(last_frame_game_time % 4)

\* C9 witness: two ticks, the second a full turn (4 quarter turns) after start.
C9_Witness ==
    /\ variant = "t006"
    /\ ticks = 2
    /\ last_frame_game_time = 4
    /\ delta_sum = 4

\* The matrix translation * rotation * scale of a Transform's components.
ComposedMatrix(t) ==
    Mat4Mul(Mat4FromTranslation(t.translation),
            Mat4Mul(Mat4FromQuat(t.rotation), Mat4FromScale(t.scale)))

\* C10: applying rotate, add_translate and set_scale to a Transform gives the
\* same Transform (hence the same to_mat4 matrix) in all six orders, and the
\* matrix of a Transform is always the composition translation * rotation *
\* scale of its three components (scale applied first, translation last).
C10_TransformOpsCommute ==
    /\ to_mat4(transform) = ComposedMatrix(transform)
    /\ \A axis \in {Vec3X, Vec3Y, Vec3Z}, d \in OpAngles, g \in OpTimes :
           LET R(t) == rotate(t, axis, d)
               T(t) == add_translate(t, TranslateStep(g))
               S(t) == set_scale(t, NMax(Sin(g), Tenth))
               rts == S(T(R(transform)))
           IN  /\ S(R(T(transform))) = rts
               /\ T(R(S(transform))) = rts
               /\ T(S(R(transform))) = rts
               /\ R(S(T(transform))) = rts
               /\ R(T(S(transform))) = rts
               /\ rts.rotation = QuatMul(transform.rotation, QuatFromAxisAngle(axis, d))
               /\ rts.scale = Vec3splat(NMax(Sin(g), Tenth))
               /\ rts.translation.x = NAdd(transform.translation.x, TranslateStep(g))

\* C10 witness: the three operations were applied and left a Transform whose
\* components all differ from the identity (moved, turned, scaled to 0.1).
C10_Witness ==
    /\ pc = "transform_ops"
    /\ ticks = 3
    /\ transform.translation # Vec3ZERO
    /\ transform.rotation # QuatIDENTITY
    /\ transform.scale = Vec3splat(Tenth)
    /\ to_mat4(transform) # to_mat4(TransformNew)

\* Four bytes of memory read as an f32: the value whose bytes 0..3 they are
\* in order, and otherwise some value that is none of the model's numbers.
F32FromBytes(b) ==
    IF \A i \in 1..4 : b[i] = <<b[1][1], b[1][2], b[1][3], i - 1>>
    THEN [a |-> b[1][1], b |-> b[1][2], d |-> b[1][3]]
    ELSE [a |-> b[1][1], b |-> b[1][2], d |-> b[1][3], mixed |-> TRUE]

\* A byte payload read as a list of f32, four bytes each.
FloatsOfBytes(bytes) ==
    [k \in 1..(Len(bytes) \div 4) |-> F32FromBytes(SubSeq(bytes, 4 * k - 3, 4 * k))]

\* Sixteen floats read as the four columns of a matrix.
Mat4FromColsArray(f) ==
    <<SubSeq(f, 1, 4), SubSeq(f, 5, 8), SubSeq(f, 9, 12), SubSeq(f, 13, 16)>>

\* C11: the byte payload uploaded to the transform buffer is 64 bytes, read
\* back as 16 floats it is the Transform's matrix exactly, and the four bytes
\* of the element in row r of column c are at offset 16 c + 4 r (column-major).
C11_MatrixBytesRoundTrip ==
    (Animated(variant) /\ transform_buf # <<>>) =>
        LET m == to_mat4(transform)
        IN  /\ Len(transform_buf) = 64
            /\ Mat4FromColsArray(FloatsOfBytes(transform_buf)) = m
            /\ \A c \in 1..4, r \in 1..4, i \in 0..3 :
                  transform_buf[16 * (c - 1) + 4 * (r - 1) + i + 1] = ByteOf(m[c][r], i)

\* C11 witness: a buffer was uploaded for a Transform that is rotated and
\* moved, so that its matrix differs from its transpose.
C11_Witness ==
    /\ Animated(variant)
    /\ Len(transform_buf) = 64
    /\ transform.rotation # QuatIDENTITY
    /\ transform.translation.x # Zero
    /\ to_mat4(transform)[4][1] # to_mat4(transform)[1][4]

\* The draw calls in a handler's log.
DrawCalls(cs) ==
    {i \in 1..Len(cs) : cs[i].op \in {"rpass.draw", "rpass.draw_indexed"}}

\* C12: every successful redraw tick of a variant that has a mesh issues
\* exactly one draw call, with one instance, over the whole mesh: 3 vertices
\* non-indexed in v1 and v2, all 12 vertices in v3, 3 indices in t03-shader,
\* and the 6 indices 0 1 3 1 2 3 through draw_indexed in t04-texture and
\* t006-coord.  (t001-window has no mesh: its pass only clears.)
C12_OneDrawOverWholeMesh ==
    (/\ last_event.kind = "RedrawRequested"
     /\ last_acquire = "Ok"
     /\ variant \in {"v1", "v2", "v3", "t03", "t04", "t006"}) =>
        /\ Cardinality(DrawCalls(calls)) = 1
        /\ \A i \in DrawCalls(calls) :
              /\ calls[i].b = 1
              /\ variant \in {"v1", "v2"} =>
                    calls[i].op = "rpass.draw" /\ calls[i].a = 3
              /\ variant = "v2" => Len(VerticesOf(variant)) = 3
              /\ variant = "v3" =>
                    /\ calls[i].op = "rpass.draw"
                    /\ calls[i].a = 12
                    /\ Len(VerticesOf(variant)) = 12
              /\ variant = "t03" =>
                    /\ calls[i].op = "rpass.draw_indexed"
                    /\ calls[i].a = 3
                    /\ IndicesOf(variant) = <<0, 1, 2>>
              /\ variant \in {"t04", "t006"} =>
                    /\ calls[i].op = "rpass.draw_indexed"
                    /\ calls[i].a = 6
                    /\ IndicesOf(variant) = <<0, 1, 3, 1, 2, 3>>
                    /\ Len(VerticesOf(variant)) = 4

\* C12 witness: the textured quad was drawn and presented.
C12_Witness ==
    /\ variant = "t04"
    /\ last_event.kind = "RedrawRequested"
    /\ last_acquire = "Ok"
    /\ frames_presented = 1
    /\ \E i \in DrawCalls(calls) : calls[i].a = 6

\* The entries of a bind group supply every slot of its layout with a
\* resource of the kind the slot declares, and nothing else.
SuppliesEverySlot(g) ==
    LET layout == BindGroupLayoutOf(g.layout)
    IN  /\ Len(g.entries) = Len(layout)
        /\ \A j \in 1..Len(layout) :
              \E i \in 1..Len(g.entries) :
                 /\ g.entries[i].binding = layout[j].binding
                 /\ ResourceType(g.entries[i].resource) = layout[j].ty

\* C13: a bind group built against the layout {0: texture, 1: sampler} from
\* the entries {0: sampler, 1: texture view} fails on the type of its
\* bindings, and the failure ends the process; every bind group the program
\* itself builds supplies each slot of its layout with a resource of the
\* kind the slot declares, and is accepted.
C13_BindGroupMatchesLayout ==
    \A i \in 1..Len(bind_groups) :
        LET g == bind_groups[i]
        IN  /\ (/\ g.layout = "texture_bind_group_layout"
                /\ g.entries = TextureGroupEntriesSwapped)
                  => /\ g.result = "WrongBindingType"
                     /\ pc = "done"
                     /\ exit_status = "failure"
            /\ g.name # "probe" => (SuppliesEverySlot(g) /\ g.result = "Ok")

\* C13 witness: t006-coord's three bind groups were built and accepted, and
\* a further texture bind group with the two resources swapped was rejected.
C13_Witness ==
    /\ Len(bind_groups) = 4
    /\ \A i \in 1..3 : bind_groups[i].name # "probe" /\ bind_groups[i].result = "Ok"
    /\ bind_groups[4].name = "probe"
    /\ bind_groups[4].layout = "texture_bind_group_layout"
    /\ bind_groups[4].entries = <<GroupEntry(0, "Sampler"), GroupEntry(1, "TextureView")>>
    /\ bind_groups[4].result = "WrongBindingType"
    /\ exit_status = "failure"

\* C14: in every variant that uploads vertex data, the vertex-buffer layout
\* declared to the pipeline matches the Vertex struct: the stride is
\* size_of::<Vertex>(), each attribute's format has as many components as
\* the struct field it reads, and each attribute ends within the stride.
C14_VertexLayoutMatchesStruct ==
    (loops_started = 1 /\ VerticesOf(variant) # <<>>) =>
        LET layout == VertexBuffersOf(variant)[1]
            fields == VertexFields(variant)
        IN  /\ layout.array_stride = SizeOfVertex(variant)
            /\ Len(layout.attributes) = Len(fields)
            /\ \A i \in 1..Len(layout.attributes) :
                  /\ FormatComponents(layout.attributes[i].format) = fields[i]
                  /\ layout.attributes[i].offset + FormatSize(layout.attributes[i].format)
                        <= layout.array_stride

\* The bind group of a given name among those created at start-up.
GroupNamed(name) ==
    {bind_groups[k] : k \in {j \in 1..Len(bind_groups) : bind_groups[j].name = name}}

\* The set_bind_group calls of a handler's log that precede position d.
BoundBefore(cs, d) == {i \in 1..(d - 1) : cs[i].op = "rpass.set_bind_group"}

\* C15: at every draw call the slots bound with set_bind_group in that pass
\* are exactly the slots of the pipeline's layout, and the group bound at
\* slot i was created from the layout the pipeline declares for slot i: the
\* texture group at 0 and, in t006-coord, the view matrix at 1 and the
\* projection matrix at 2.
C15_BoundGroupsMatchPipeline ==
    \A d \in DrawCalls(calls) :
        LET layout == PipelineLayoutOf(variant)
            bound == BoundBefore(calls, d)
        IN  /\ {calls[i].a : i \in bound} = {k - 1 : k \in 1..Len(layout)}
            /\ Cardinality(bound) = Len(layout)
            /\ \A i \in bound :
                  /\ GroupNamed(calls[i].what) # {}
                  /\ \A g \in GroupNamed(calls[i].what) :
                        g.result = "Ok" /\ g.layout = layout[calls[i].a + 1]
            /\ variant \in {"t04", "t006"} =>
                  \E i \in bound :
                     /\ calls[i].a = 0
                     /\ \A g \in GroupNamed(calls[i].what) :
                           g.layout = "texture_bind_group_layout"
            /\ variant = "t006" =>
                  /\ \E i \in bound : calls[i].a = 1 /\ calls[i].what = "view_bindgroup"
                  /\ \E i \in bound : calls[i].a = 2 /\ calls[i].what = "projection_bindgroup"

\* C15 witness: t006-coord drew with three bind groups bound.
C15_Witness ==
    /\ variant = "t006"
    /\ last_acquire = "Ok"
    /\ DrawCalls(calls) # {}
    /\ \A d \in DrawCalls(calls) : Cardinality(BoundBefore(calls, d)) = 3

\* Position of the first call of an operation in a handler's log (0 if none).
PosOf(cs, op) ==
    IF \E i \in 1..Len(cs) : cs[i].op = op
    THEN CHOOSE i \in 1..Len(cs) : cs[i].op = op /\ \A j \in 1..(i - 1) : cs[j].op # op
    ELSE 0

\* The operations of a handler's log occur once each, in the order given.
InOrder(cs, ops) ==
    /\ \A k \in 1..Len(ops) : CountOp(cs, ops[k]) = 1
    /\ \A k \in 1..(Len(ops) - 1) : PosOf(cs, ops[k]) < PosOf(cs, ops[k + 1])

\* C16: a redraw tick of t006-coord advances the Transform, creates the
\* transform buffer from the new matrix, acquires the frame, records the
\* pass, submits and presents, in that order; the buffer the draw call of the
\* tick reads holds the matrix of the Transform computed in that tick.
C16_TickOrderAndFreshMatrix ==
    (Animated(variant) /\ last_event.kind = "RedrawRequested") =>
        /\ InOrder(calls, <<"now.elapsed", "transform.rotate_x", "transform.add_translate",
                            "transform.set_scale", "transform.to_mat4",
                            "device.create_buffer_init", "surface.get_current_texture">>)
        /\ transform_buf = Mat4Contents(to_mat4(transform))
        /\ last_acquire = "Ok" =>
              /\ InOrder(calls, <<"device.create_buffer_init", "surface.get_current_texture",
                                  "encoder.begin_render_pass", "rpass.set_pipeline",
                                  "rpass.draw_indexed", "queue.submit", "frame.present">>)
              /\ \E i \in 1..(PosOf(calls, "rpass.draw_indexed") - 1) :
                    /\ calls[i].op = "rpass.set_vertex_buffer"
                    /\ calls[i].a = 1
                    /\ calls[i].what = "transform_buf"

\* C16 witness: the second tick of t006-coord, at a later clock reading than
\* the first, drew and presented.
C16_Witness ==
    /\ Animated(variant)
    /\ last_event.kind = "RedrawRequested"
    /\ last_acquire = "Ok"
    /\ ticks = 2
    /\ frames_presented = 2
    /\ 0 < delta_sum
    /\ transform.rotation # QuatIDENTITY

\* C17: between handler calls no frame is acquired but unpresented and no
\* command encoder is unsubmitted: every frame acquired so far has been
\* submitted once and presented once, by the tick that acquired it, with
\* the submit before the present; a handler other than a successful redraw
\* tick acquires, submits and presents nothing.
C17_TicksDoNotOverlap ==
    /\ frames_submitted = frames_acquired
    /\ frames_presented = frames_acquired
    /\ frames_acquired <= ticks
    /\ CountOp(calls, "device.create_command_encoder") = CountOp(calls, "queue.submit")
    /\ IF last_event.kind = "RedrawRequested" /\ last_acquire = "Ok"
       THEN InOrder(calls, <<"surface.get_current_texture", "frame.texture.create_view",
                             "device.create_command_encoder", "encoder.begin_render_pass",
                             "queue.submit", "frame.present">>)
       ELSE /\ CountOp(calls, "queue.submit") = 0
            /\ CountOp(calls, "frame.present") = 0
            /\ last_event.kind # "RedrawRequested" =>
                  CountOp(calls, "surface.get_current_texture") = 0

\* C17 witness: two ticks of t03-shader have each acquired, submitted and
\* presented a frame.
C17_Witness ==
    /\ variant = "t03"
    /\ ticks = 2
    /\ frames_acquired = 2
    /\ frames_submitted = 2
    /\ frames_presented = 2
    /\ last_event.kind = "RedrawRequested"

\* C18: in t006-coord the recorded previous elapsed time is 0 before the
\* first tick and the elapsed time of the latest tick afterwards, and the
\* deltas of all ticks so far sum to it, so that each tick's delta is its
\* elapsed time minus the elapsed time recorded by the tick before; the
\* delta is never negative and is the angle handed to rotate_x.
C18_DeltaIsElapsedDifference ==
    Animated(variant) =>
        /\ ticks = 0 => last_frame_game_time = 0
        /\ delta_sum = last_frame_game_time
        /\ last_event.kind = "RedrawRequested" =>
              /\ calls[1].op = "now.elapsed"
              /\ calls[1].a = last_frame_game_time
              /\ 0 <= calls[1].b
              /\ calls[1].b <= calls[1].a
              /\ calls[2].op = "transform.rotate_x"
              /\ calls[2].a = calls[1].b

\* C18 witness: a second tick whose delta is positive and smaller than its
\* elapsed time (the first tick was at a positive clock reading too).
C18_Witness ==
    /\ Animated(variant)
    /\ ticks = 2
    /\ last_event.kind = "RedrawRequested"
    /\ 0 < calls[1].b
    /\ calls[1].b < calls[1].a

\* C19: in t006-coord the translation starts at zero and every tick adds
\* cos(elapsed)/100 to it: after n ticks its x and y are the sum of
\* cos(t_i)/100 over the ticks so far (z stays 0); after the first tick
\* that sum is cos(t_1)/100.
C19_TranslationAccumulates ==
    Animated(variant) =>
        /\ transform.translation = Vec3(translate_sum, translate_sum, Zero)
        /\ ticks = 0 => translate_sum = Zero
        /\ ticks = 1 => translate_sum = NDiv100(Cos(last_frame_game_time))

\* C19 witness: two ticks at clock reading 0 have moved the quad by
\* 2 * cos(0)/100 along x and y.
C19_Witness ==
    /\ Animated(variant)
    /\ ticks = 2
    /\ last_frame_game_time = 0
    /\ transform.translation.x = Num(2 * (Den \div 100), 0)
    /\ transform.translation.y = Num(2 * (Den \div 100), 0)

\* C20: a Transform operation returns a value that differs from its
\* receiver in its own component only: rotate_x / rotate_y / rotate_z keep
\* the receiver's translation and scale, set_scale keeps its translation and
\* rotation, add_translate keeps its rotation and scale.
C20_OperationChangesOwnComponent ==
    [][(pc = "transform_ops" /\ Len(calls') > 0) =>
          LET op == calls'[1].op
          IN  /\ op \in {"transform.rotate_x", "transform.rotate_y", "transform.rotate_z"} =>
                    /\ transform'.translation = transform.translation
                    /\ transform'.scale = transform.scale
              /\ op = "transform.set_scale" =>
                    /\ transform'.translation = transform.translation
                    /\ transform'.rotation = transform.rotation
                    /\ transform'.scale = Vec3splat(ScaleAt(calls'[1].a))
              /\ op = "transform.add_translate" =>
                    /\ transform'.rotation = transform.rotation
                    /\ transform'.scale = transform.scale
                    /\ transform'.translation.z = transform.translation.z]_vars

\* C20 witness: after a translation and a rotation, set_scale was applied
\* and the Transform is still moved and rotated.
C20_Witness ==
    /\ pc = "transform_ops"
    /\ ticks = 3
    /\ calls[1].op = "transform.set_scale"
    /\ transform.translation # Vec3ZERO
    /\ transform.rotation # QuatIDENTITY
    /\ transform.scale # Vec3ONE

\* C21: adapter, device, queue and surface are each acquired exactly once,
\* before the loop handles its first event: once the loop has started every
\* one of them exists, and in no state, after any redraw, resize, close or
\* key event, has one of them been created a second time.
GpuHandles == {"surface", "adapter", "device", "queue"}

C21_AcquiredOnceBeforeFirstEvent ==
    /\ \A n \in GpuHandles : CreatedCount(created, n) <= 1
    /\ (pc = "loop" \/ last_event # NoEvent) =>
          /\ adapter = "acquired"
          /\ device = "acquired"
          /\ \A n \in GpuHandles : CreatedCount(created, n) = 1

C21_Witness ==
    /\ ticks >= 1
    /\ frames_presented >= 1
    /\ last_event.kind = "Resized"
    /\ last_event.window = "own"
    /\ HasResizedArm(variant)
    /\ control_flow = "Exit"
    /\ \A n \in GpuHandles : CreatedCount(created, n) = 1

\* C22: whenever the surface is configured, its present mode is Fifo, its
\* format is the first format the surface supports, every colour target of
\* the render pipeline has that format, and alpha mode and usage are the
\* ones chosen at start-up; after a Resized event for the window the
\* configuration is the start-up one with the event's width and height.
C22_ConfigurationKeepsFormatAndMode ==
    surface_config # Unconfigured =>
        /\ surface_config.present_mode = "Fifo"
        /\ surface_config.format = Head(SupportedFormats)
        /\ \A i \in 1..Len(RenderPipelineTargets(variant)) :
              RenderPipelineTargets(variant)[i] = surface_config.format
        /\ surface_config.alpha_mode = Head(SupportedAlphaModes)
        /\ surface_config.usage = "RENDER_ATTACHMENT"
        /\ config = surface_config
        /\ (last_event.kind = "Resized" /\ ForOwnWindow(last_event) /\ HasResizedArm(variant))
              => surface_config = [usage |-> "RENDER_ATTACHMENT",
                                   format |-> Head(SupportedFormats),
                                   width |-> last_event.size.width,
                                   height |-> last_event.size.height,
                                   present_mode |-> "Fifo",
                                   alpha_mode |-> Head(SupportedAlphaModes)]

C22_Witness ==
    /\ last_event.kind = "Resized"
    /\ ForOwnWindow(last_event)
    /\ HasResizedArm(variant)
    /\ frame # NoFrame
    /\ frame.width # last_event.size.width
    /\ frame.height # last_event.size.height
    /\ surface_config.width = last_event.size.width
    /\ surface_config.height = last_event.size.height
    /\ surface_config.format = Head(SupportedFormats)
    /\ Len(RenderPipelineTargets(variant)) = 1

\* The objects a handler's log binds for drawing: mesh buffers and bind groups.
MeshBindings(cs) ==
    {i \in 1..Len(cs) :
        \/ cs[i].op \in {"rpass.set_index_buffer", "rpass.set_bind_group"}
        \/ cs[i].op = "rpass.set_vertex_buffer" /\ cs[i].a = 0}

\* C23: the render pipeline, the mesh's vertex and index buffer, the texture
\* and the bind groups exist exactly once from the start of the loop on, no
\* redraw, resize, close or key event creates one of them again or changes
\* the bind groups, and the mesh buffers and bind groups a tick binds for
\* its draw are those created at start-up.
C23_StartupResourcesNeverRecreated ==
    LET startup == {StartupObjects(variant)[i] : i \in 1..Len(StartupObjects(variant))}
    IN  /\ \A n \in startup : CreatedCount(created, n) <= 1
        /\ (pc = "loop" \/ last_event # NoEvent) =>
              /\ \A n \in startup : CreatedCount(created, n) = 1
              /\ bind_groups = BindGroupsOf(variant)
              /\ \A i \in MeshBindings(calls) :
                    /\ calls[i].what \in startup
                    /\ CreatedCount(created, calls[i].what) = 1

C23_Witness ==
    /\ variant = "t04"
    /\ last_event.kind = "RedrawRequested"
    /\ frames_presented = 2
    /\ control_flow = "Exit"
    /\ MeshBindings(calls) # {}
    /\ CreatedCount(created, "vertices_buf") = 1
    /\ CreatedCount(created, "indices_buf") = 1

\* C24: in every tick of the animated tutorial the view buffer, the
\* projection buffer and the transform buffer created in that tick each hold
\* one matrix of 16 floats of 4 bytes, 64 bytes: the two buffers bound
\* through the matrix bind-group layout are not smaller than its minimum
\* binding size of 64, and the transform buffer has exactly the size of the
\* instance layout's stride.
C24_MatrixBuffersAre64Bytes ==
    (Animated(variant) /\ last_event.kind = "RedrawRequested") =>
        LET view_buffer == ViewBufferContents
            projection_buffer == ProjectionBufferContents(projection)
        IN  /\ Len(Mat4AsRef(view)) = 16
            /\ Len(Mat4AsRef(projection)) = 16
            /\ Len(view_buffer) = 64
            /\ Len(projection_buffer) = 64
            /\ Len(transform_buf) = 64
            /\ mat4_min_binding_size = 64
            /\ Len(view_buffer) >= mat4_min_binding_size
            /\ Len(projection_buffer) >= mat4_min_binding_size
            /\ Len(transform_buf) = buffer_layout.array_stride
            /\ \A g \in {"view_bindgroup", "projection_bindgroup"} :
                  \A grp \in GroupNamed(g) : grp.layout = "mat4_bindgroup_layout"

C24_Witness ==
    /\ Animated(variant)
    /\ last_event.kind = "RedrawRequested"
    /\ ticks = 2
    /\ Len(transform_buf) = 64
    /\ Len(ProjectionBufferContents(projection)) = 64
    /\ transform.scale.x # One
    /\ GroupNamed("view_bindgroup") # {}

\* C25: in the variants that draw with an index buffer (t03-shader,
\* t04-texture, t006-coord) every index uploaded is the position of an
\* uploaded vertex, 0 <= index < number of vertices: 0 1 2 over 3 vertices,
\* 0 1 3 1 2 3 over 4; indices and vertex count fit in 16 bits.
C25_IndicesAreValidVertexPositions ==
    (variant \in {"t03", "t04", "t006"} /\ pc \in {"loop", "done"}) =>
        LET vertices == VerticesOf(variant)
            indices == IndicesOf(variant)
        IN  /\ Len(indices) > 0
            /\ \A i \in 1..Len(indices) :
                  /\ indices[i] >= 0
                  /\ indices[i] < Len(vertices)
                  /\ indices[i] < 65536
            /\ Len(vertices) <= 65536
            /\ variant = "t03" => indices = <<0, 1, 2>> /\ Len(vertices) = 3
            /\ variant \in {"t04", "t006"} =>
                  indices = <<0, 1, 3, 1, 2, 3>> /\ Len(vertices) = 4
            /\ CreatedCount(created, "indices_buf") = CreatedCount(created, "vertices_buf")

C25_Witness ==
    /\ variant = "t006"
    /\ last_event.kind = "RedrawRequested"
    /\ last_acquire = "Ok"
    /\ CreatedCount(created, "indices_buf") = 1
    /\ \E i \in DrawCalls(calls) : calls[i].a = Len(IndicesOf(variant))
    /\ \E i \in 1..Len(IndicesOf(variant)) :
          IndicesOf(variant)[i] = Len(VerticesOf(variant)) - 1

\* C26: frame pacing sustains itself in each tutorial: whenever the closure
\* has handled RedrawEventsCleared and no close or Escape event has been
\* handled, a redraw has been requested for the window, so that the next
\* iteration of the loop has a RedrawRequested tick without any resize or
\* invalidation from outside.
C26_RedrawRequestedWhenEventsCleared ==
    (/\ pc = "loop"
     /\ last_event.kind = "RedrawEventsCleared"
     /\ control_flow # "Exit") => redraw_requested

\* C27: every call of surface.configure passes a width and a height of at
\* least 1, also after a Resized event carrying 0 x 0.
C27_SurfaceNeverConfiguredWithZeroArea ==
    /\ surface_config # Unconfigured =>
          surface_config.width >= 1 /\ surface_config.height >= 1
    /\ \A i \in 1..Len(calls) :
          calls[i].op = "surface.configure" => calls[i].a >= 1 /\ calls[i].b >= 1

\* C28: in the animated tutorial the projection is computed when the loop
\* starts, with the aspect ratio width / height of the window's size at
\* that time, view and projection buffer are created once, and no step of
\* the loop changes the projection: whatever Resized events follow, its
\* aspect ratio stays that of the initial window.
C28_ProjectionKeepsInitialAspect ==
    [][(Animated(variant) /\ pc = "loop") =>
          /\ last_event = NoEvent =>
                projection = perspective_rh(<<window_size.width \div
                                                 GCD(window_size.width, window_size.height),
                                               window_size.height \div
                                                 GCD(window_size.width, window_size.height)>>)
          /\ projection' = projection
          /\ CreatedCount(created', "view_buffer") = 1
          /\ CreatedCount(created', "projection_buffer") = 1]_vars

\* C28 witness: after a tick and a Resized event the surface is configured
\* taller than wide while the projection still has the wide initial
\* window's aspect ratio.
C28_Witness ==
    /\ Animated(variant)
    /\ pc = "loop"
    /\ ticks >= 1
    /\ last_event.kind = "Resized"
    /\ surface_config.width = 1
    /\ surface_config.height = MaxDim
    /\ projection = perspective_rh(<<MaxDim, 1>>)
    /\ projection # ProjectionFor(Size(surface_config.width, surface_config.height))

\* C29: once the closure has run, the loop's control flow is Wait or Exit.
\* It turns to Exit only in a step that handles CloseRequested, or a
\* KeyboardInput with state Pressed and key Escape, for the application's own
\* window; every other event (a key release, another key, a redraw, a
\* resize, a window event with another window id) leaves it at Wait, and the
\* loop is left through LoopDestroyed only when the control flow is Exit.
C29_ExitOnlyOnCloseOrEscape ==
    [][pc = "loop" =>
          LET ev == last_event'
              exits == /\ ev.window = "own"
                       /\ \/ ev.kind = "CloseRequested"
                          \/ /\ ev.kind = "KeyboardInput"
                             /\ ev.state = "Pressed"
                             /\ ev.key = "Escape"
          IN  /\ control_flow' \in {"Wait", "Exit"}
              /\ (control_flow # "Exit" /\ control_flow' = "Exit") => exits
              /\ (control_flow # "Exit" /\ ~exits) => control_flow' = "Wait"
              /\ ev.kind = "LoopDestroyed" => control_flow = "Exit"
              /\ (pc' = "done" /\ exit_status' = "success") =>
                    (ev.kind = "LoopDestroyed" /\ control_flow = "Exit")]_vars

\* C29 witness: after a presented frame a CloseRequested for another window
\* was handled and the control flow is still Wait.
C29_Witness ==
    /\ pc = "loop"
    /\ frames_presented >= 1
    /\ last_event.kind = "CloseRequested"
    /\ last_event.window = "other"
    /\ control_flow = "Wait"

\* C30: in the animated tutorial the Transform's translation has z = 0 and
\* x = y in every state, and so has the matrix uploaded for a frame: the z
\* entry of its translation column (bytes 56..59 of the buffer) is 0.
C30_TranslationStaysInPlane ==
    Animated(variant) =>
        /\ transform.translation.z = Zero
        /\ transform.translation.x = transform.translation.y
        /\ transform_buf # <<>> =>
              /\ \A i \in 0..3 : transform_buf[56 + i + 1] = ByteOf(Zero, i)
              /\ \A i \in 0..3 : transform_buf[48 + i + 1] = transform_buf[52 + i + 1]

\* C30 witness: two ticks have turned the quad and moved it along the
\* diagonal, and its z is still 0.
C30_Witness ==
    /\ Animated(variant)
    /\ ticks = 2
    /\ transform.rotation # QuatIDENTITY
    /\ transform.translation.x # Zero
    /\ transform.translation.x = transform.translation.y
    /\ transform.translation.z = Zero
    /\ Len(transform_buf) = 64

====
